---- MODULE Spec2Model ----
(***************************************************************************)
(* A model of pyhtcc (src/pyhtcc/pyhtcc.py): the PyHTCC client of the      *)
(* Total Connect Comfort portal.                                           *)
(*                                                                         *)
(* Text (URLs, page bodies) is a sequence of characters, each a string of  *)
(* one character or, outside ASCII, U+ and the code point (U+0663), so     *)
(* that the substring tests, splits and number parsing of the code are     *)
(* computed on characters as Python computes them.  A Python exception is  *)
(* the name of its class; "ok" is a normal return.                         *)
(***************************************************************************)
EXTENDS Integers, Sequences, FiniteSets, TLC

(***************************************************************************)
(* Python text primitives                                                  *)
(***************************************************************************)

\* s[i..j] of Python slicing, 1-based and inclusive; empty when j < i.
Slice(s, i, j) == IF j < i THEN <<>> ELSE SubSeq(s, i, j)

\* True when p occurs in s at position i (1-based).
OccursAt(s, p, i) ==
  /\ i >= 1
  /\ i + Len(p) - 1 <= Len(s)
  /\ \A k \in 1..Len(p) : s[i + k - 1] = p[k]

\* Python: p in s
Contains(s, p) == \E i \in 1..(Len(s) - Len(p) + 1) : OccursAt(s, p, i)

\* Python: s.find(p) + 1, i.e. the first position of p in s, 0 when absent.
Find(s, p) ==
  IF Contains(s, p)
  THEN CHOOSE i \in 1..(Len(s) - Len(p) + 1) :
         /\ OccursAt(s, p, i)
         /\ \A j \in 1..(i - 1) : ~OccursAt(s, p, j)
  ELSE 0

\* Python: s.split(sep), sep non-empty: the pieces between the successive
\* non-overlapping occurrences of sep, scanning from the left.
RECURSIVE Split(_, _)
Split(s, sep) ==
  LET i == Find(s, sep)
  IN IF i = 0 THEN <<s>>
     ELSE <<Slice(s, 1, i - 1)>> \o Split(Slice(s, i + Len(sep), Len(s)), sep)

\* Python: s.split(sep, 1): split at the first occurrence only.
Split1(s, sep) ==
  LET i == Find(s, sep)
  IN IF i = 0 THEN <<s>>
     ELSE <<Slice(s, 1, i - 1), Slice(s, i + Len(sep), Len(s))>>

\* The characters for which str.isspace() holds: what str.strip() removes
\* and what \s of a regular expression matches.  A character outside ASCII
\* is written U+ and its code point.
WhiteSpace ==
  {"\t", "\n", "", "\f", "\r", "", "", "", "", " ", "U+0085", "U+00A0",
   "U+1680", "U+2000", "U+2001", "U+2002", "U+2003", "U+2004", "U+2005",
   "U+2006", "U+2007", "U+2008", "U+2009", "U+200A", "U+2028", "U+2029",
   "U+202F", "U+205F", "U+3000"}

\* The white space that int() and float() ignore around a numeral: all of
\* it but the four separators U+001C..U+001F
NumberSpace == WhiteSpace \ {"", "", "", ""}

\* Python: s.lstrip() and s.rstrip() for the characters of space: s from
\* its first character that is not of space, s up to its last one
LStrip(s, space) ==
  LET first == CHOOSE k \in 1..(Len(s) + 1) :
                 /\ k <= Len(s) => s[k] \notin space
                 /\ \A j \in 1..(k - 1) : s[j] \in space
  IN Slice(s, first, Len(s))

RStrip(s, space) ==
  LET last == CHOOSE k \in 0..Len(s) :
                /\ k >= 1 => s[k] \notin space
                /\ \A j \in (k + 1)..Len(s) : s[j] \in space
  IN Slice(s, 1, last)

\* Python: s.strip()
Strip(s) == RStrip(LStrip(s, WhiteSpace), WhiteSpace)

\* The text int() and float() parse
NumberStrip(s) == RStrip(LStrip(s, NumberSpace), NumberSpace)

\* The decimal digits of Unicode (category Nd), which \d matches and int()
\* and float() read: one row per script, the digits 0 to 9 in order
DecimalDigits ==
  <<<<"0", "1", "2", "3", "4", "5", "6", "7", "8", "9">>,
    <<"U+0660", "U+0661", "U+0662", "U+0663", "U+0664", "U+0665", "U+0666", "U+0667", "U+0668", "U+0669">>,
    <<"U+06F0", "U+06F1", "U+06F2", "U+06F3", "U+06F4", "U+06F5", "U+06F6", "U+06F7", "U+06F8", "U+06F9">>,
    <<"U+07C0", "U+07C1", "U+07C2", "U+07C3", "U+07C4", "U+07C5", "U+07C6", "U+07C7", "U+07C8", "U+07C9">>,
    <<"U+0966", "U+0967", "U+0968", "U+0969", "U+096A", "U+096B", "U+096C", "U+096D", "U+096E", "U+096F">>,
    <<"U+09E6", "U+09E7", "U+09E8", "U+09E9", "U+09EA", "U+09EB", "U+09EC", "U+09ED", "U+09EE", "U+09EF">>,
    <<"U+0A66", "U+0A67", "U+0A68", "U+0A69", "U+0A6A", "U+0A6B", "U+0A6C", "U+0A6D", "U+0A6E", "U+0A6F">>,
    <<"U+0AE6", "U+0AE7", "U+0AE8", "U+0AE9", "U+0AEA", "U+0AEB", "U+0AEC", "U+0AED", "U+0AEE", "U+0AEF">>,
    <<"U+0B66", "U+0B67", "U+0B68", "U+0B69", "U+0B6A", "U+0B6B", "U+0B6C", "U+0B6D", "U+0B6E", "U+0B6F">>,
    <<"U+0BE6", "U+0BE7", "U+0BE8", "U+0BE9", "U+0BEA", "U+0BEB", "U+0BEC", "U+0BED", "U+0BEE", "U+0BEF">>,
    <<"U+0C66", "U+0C67", "U+0C68", "U+0C69", "U+0C6A", "U+0C6B", "U+0C6C", "U+0C6D", "U+0C6E", "U+0C6F">>,
    <<"U+0CE6", "U+0CE7", "U+0CE8", "U+0CE9", "U+0CEA", "U+0CEB", "U+0CEC", "U+0CED", "U+0CEE", "U+0CEF">>,
    <<"U+0D66", "U+0D67", "U+0D68", "U+0D69", "U+0D6A", "U+0D6B", "U+0D6C", "U+0D6D", "U+0D6E", "U+0D6F">>,
    <<"U+0DE6", "U+0DE7", "U+0DE8", "U+0DE9", "U+0DEA", "U+0DEB", "U+0DEC", "U+0DED", "U+0DEE", "U+0DEF">>,
    <<"U+0E50", "U+0E51", "U+0E52", "U+0E53", "U+0E54", "U+0E55", "U+0E56", "U+0E57", "U+0E58", "U+0E59">>,
    <<"U+0ED0", "U+0ED1", "U+0ED2", "U+0ED3", "U+0ED4", "U+0ED5", "U+0ED6", "U+0ED7", "U+0ED8", "U+0ED9">>,
    <<"U+0F20", "U+0F21", "U+0F22", "U+0F23", "U+0F24", "U+0F25", "U+0F26", "U+0F27", "U+0F28", "U+0F29">>,
    <<"U+1040", "U+1041", "U+1042", "U+1043", "U+1044", "U+1045", "U+1046", "U+1047", "U+1048", "U+1049">>,
    <<"U+1090", "U+1091", "U+1092", "U+1093", "U+1094", "U+1095", "U+1096", "U+1097", "U+1098", "U+1099">>,
    <<"U+17E0", "U+17E1", "U+17E2", "U+17E3", "U+17E4", "U+17E5", "U+17E6", "U+17E7", "U+17E8", "U+17E9">>,
    <<"U+1810", "U+1811", "U+1812", "U+1813", "U+1814", "U+1815", "U+1816", "U+1817", "U+1818", "U+1819">>,
    <<"U+1946", "U+1947", "U+1948", "U+1949", "U+194A", "U+194B", "U+194C", "U+194D", "U+194E", "U+194F">>,
    <<"U+19D0", "U+19D1", "U+19D2", "U+19D3", "U+19D4", "U+19D5", "U+19D6", "U+19D7", "U+19D8", "U+19D9">>,
    <<"U+1A80", "U+1A81", "U+1A82", "U+1A83", "U+1A84", "U+1A85", "U+1A86", "U+1A87", "U+1A88", "U+1A89">>,
    <<"U+1A90", "U+1A91", "U+1A92", "U+1A93", "U+1A94", "U+1A95", "U+1A96", "U+1A97", "U+1A98", "U+1A99">>,
    <<"U+1B50", "U+1B51", "U+1B52", "U+1B53", "U+1B54", "U+1B55", "U+1B56", "U+1B57", "U+1B58", "U+1B59">>,
    <<"U+1BB0", "U+1BB1", "U+1BB2", "U+1BB3", "U+1BB4", "U+1BB5", "U+1BB6", "U+1BB7", "U+1BB8", "U+1BB9">>,
    <<"U+1C40", "U+1C41", "U+1C42", "U+1C43", "U+1C44", "U+1C45", "U+1C46", "U+1C47", "U+1C48", "U+1C49">>,
    <<"U+1C50", "U+1C51", "U+1C52", "U+1C53", "U+1C54", "U+1C55", "U+1C56", "U+1C57", "U+1C58", "U+1C59">>,
    <<"U+A620", "U+A621", "U+A622", "U+A623", "U+A624", "U+A625", "U+A626", "U+A627", "U+A628", "U+A629">>,
    <<"U+A8D0", "U+A8D1", "U+A8D2", "U+A8D3", "U+A8D4", "U+A8D5", "U+A8D6", "U+A8D7", "U+A8D8", "U+A8D9">>,
    <<"U+A900", "U+A901", "U+A902", "U+A903", "U+A904", "U+A905", "U+A906", "U+A907", "U+A908", "U+A909">>,
    <<"U+A9D0", "U+A9D1", "U+A9D2", "U+A9D3", "U+A9D4", "U+A9D5", "U+A9D6", "U+A9D7", "U+A9D8", "U+A9D9">>,
    <<"U+A9F0", "U+A9F1", "U+A9F2", "U+A9F3", "U+A9F4", "U+A9F5", "U+A9F6", "U+A9F7", "U+A9F8", "U+A9F9">>,
    <<"U+AA50", "U+AA51", "U+AA52", "U+AA53", "U+AA54", "U+AA55", "U+AA56", "U+AA57", "U+AA58", "U+AA59">>,
    <<"U+ABF0", "U+ABF1", "U+ABF2", "U+ABF3", "U+ABF4", "U+ABF5", "U+ABF6", "U+ABF7", "U+ABF8", "U+ABF9">>,
    <<"U+FF10", "U+FF11", "U+FF12", "U+FF13", "U+FF14", "U+FF15", "U+FF16", "U+FF17", "U+FF18", "U+FF19">>,
    <<"U+104A0", "U+104A1", "U+104A2", "U+104A3", "U+104A4", "U+104A5", "U+104A6", "U+104A7", "U+104A8", "U+104A9">>,
    <<"U+10D30", "U+10D31", "U+10D32", "U+10D33", "U+10D34", "U+10D35", "U+10D36", "U+10D37", "U+10D38", "U+10D39">>,
    <<"U+11066", "U+11067", "U+11068", "U+11069", "U+1106A", "U+1106B", "U+1106C", "U+1106D", "U+1106E", "U+1106F">>,
    <<"U+110F0", "U+110F1", "U+110F2", "U+110F3", "U+110F4", "U+110F5", "U+110F6", "U+110F7", "U+110F8", "U+110F9">>,
    <<"U+11136", "U+11137", "U+11138", "U+11139", "U+1113A", "U+1113B", "U+1113C", "U+1113D", "U+1113E", "U+1113F">>,
    <<"U+111D0", "U+111D1", "U+111D2", "U+111D3", "U+111D4", "U+111D5", "U+111D6", "U+111D7", "U+111D8", "U+111D9">>,
    <<"U+112F0", "U+112F1", "U+112F2", "U+112F3", "U+112F4", "U+112F5", "U+112F6", "U+112F7", "U+112F8", "U+112F9">>,
    <<"U+11450", "U+11451", "U+11452", "U+11453", "U+11454", "U+11455", "U+11456", "U+11457", "U+11458", "U+11459">>,
    <<"U+114D0", "U+114D1", "U+114D2", "U+114D3", "U+114D4", "U+114D5", "U+114D6", "U+114D7", "U+114D8", "U+114D9">>,
    <<"U+11650", "U+11651", "U+11652", "U+11653", "U+11654", "U+11655", "U+11656", "U+11657", "U+11658", "U+11659">>,
    <<"U+116C0", "U+116C1", "U+116C2", "U+116C3", "U+116C4", "U+116C5", "U+116C6", "U+116C7", "U+116C8", "U+116C9">>,
    <<"U+11730", "U+11731", "U+11732", "U+11733", "U+11734", "U+11735", "U+11736", "U+11737", "U+11738", "U+11739">>,
    <<"U+118E0", "U+118E1", "U+118E2", "U+118E3", "U+118E4", "U+118E5", "U+118E6", "U+118E7", "U+118E8", "U+118E9">>,
    <<"U+11950", "U+11951", "U+11952", "U+11953", "U+11954", "U+11955", "U+11956", "U+11957", "U+11958", "U+11959">>,
    <<"U+11C50", "U+11C51", "U+11C52", "U+11C53", "U+11C54", "U+11C55", "U+11C56", "U+11C57", "U+11C58", "U+11C59">>,
    <<"U+11D50", "U+11D51", "U+11D52", "U+11D53", "U+11D54", "U+11D55", "U+11D56", "U+11D57", "U+11D58", "U+11D59">>,
    <<"U+11DA0", "U+11DA1", "U+11DA2", "U+11DA3", "U+11DA4", "U+11DA5", "U+11DA6", "U+11DA7", "U+11DA8", "U+11DA9">>,
    <<"U+16A60", "U+16A61", "U+16A62", "U+16A63", "U+16A64", "U+16A65", "U+16A66", "U+16A67", "U+16A68", "U+16A69">>,
    <<"U+16AC0", "U+16AC1", "U+16AC2", "U+16AC3", "U+16AC4", "U+16AC5", "U+16AC6", "U+16AC7", "U+16AC8", "U+16AC9">>,
    <<"U+16B50", "U+16B51", "U+16B52", "U+16B53", "U+16B54", "U+16B55", "U+16B56", "U+16B57", "U+16B58", "U+16B59">>,
    <<"U+1D7CE", "U+1D7CF", "U+1D7D0", "U+1D7D1", "U+1D7D2", "U+1D7D3", "U+1D7D4", "U+1D7D5", "U+1D7D6", "U+1D7D7">>,
    <<"U+1D7D8", "U+1D7D9", "U+1D7DA", "U+1D7DB", "U+1D7DC", "U+1D7DD", "U+1D7DE", "U+1D7DF", "U+1D7E0", "U+1D7E1">>,
    <<"U+1D7E2", "U+1D7E3", "U+1D7E4", "U+1D7E5", "U+1D7E6", "U+1D7E7", "U+1D7E8", "U+1D7E9", "U+1D7EA", "U+1D7EB">>,
    <<"U+1D7EC", "U+1D7ED", "U+1D7EE", "U+1D7EF", "U+1D7F0", "U+1D7F1", "U+1D7F2", "U+1D7F3", "U+1D7F4", "U+1D7F5">>,
    <<"U+1D7F6", "U+1D7F7", "U+1D7F8", "U+1D7F9", "U+1D7FA", "U+1D7FB", "U+1D7FC", "U+1D7FD", "U+1D7FE", "U+1D7FF">>,
    <<"U+1E140", "U+1E141", "U+1E142", "U+1E143", "U+1E144", "U+1E145", "U+1E146", "U+1E147", "U+1E148", "U+1E149">>,
    <<"U+1E2F0", "U+1E2F1", "U+1E2F2", "U+1E2F3", "U+1E2F4", "U+1E2F5", "U+1E2F6", "U+1E2F7", "U+1E2F8", "U+1E2F9">>,
    <<"U+1E950", "U+1E951", "U+1E952", "U+1E953", "U+1E954", "U+1E955", "U+1E956", "U+1E957", "U+1E958", "U+1E959">>,
    <<"U+1FBF0", "U+1FBF1", "U+1FBF2", "U+1FBF3", "U+1FBF4", "U+1FBF5", "U+1FBF6", "U+1FBF7", "U+1FBF8", "U+1FBF9">> >>

Digits == {DecimalDigits[r][k] : r \in DOMAIN DecimalDigits, k \in 1..10}

DigitValues ==
  [c \in Digits |->
     (CHOOSE k \in 1..10 : \E r \in DOMAIN DecimalDigits : DecimalDigits[r][k] = c) - 1]

DigitValue(c) == DigitValues[c]

\* The digits of a numeral without the underscores that group them
WithoutUnderscores(s) == SelectSeq(s, LAMBDA c : c # "_")

\* A run of digits and underscores in which every underscore stands between
\* two digits, as int() and float() accept it; the empty run included
Grouped(s) ==
  \A k \in 1..Len(s) :
    \/ s[k] \in Digits
    \/ /\ s[k] = "_"
       /\ k > 1 /\ k < Len(s)
       /\ s[k - 1] \in Digits
       /\ s[k + 1] \in Digits

\* A run of decimal digits without the zeros it starts with
WithoutLeadingZeros(s) ==
  LET first == CHOOSE k \in 1..(Len(s) + 1) :
                 /\ k <= Len(s) => DigitValue(s[k]) # 0
                 /\ \A j \in 1..(k - 1) : DigitValue(s[j]) = 0
  IN Slice(s, first, Len(s))

\* The value of a run of decimal digits that starts with no zero
RECURSIVE SignificantValue(_)
SignificantValue(s) ==
  IF s = <<>> THEN 0
  ELSE 10 * SignificantValue(Slice(s, 1, Len(s) - 1)) + DigitValue(s[Len(s)])

\* The value of a run of decimal digits.
DecimalValue(s) == SignificantValue(WithoutLeadingZeros(s))

\* sys.get_int_max_str_digits(): the most digits int() converts
IntMaxStrDigits == 4300

\* A Python value that is an int or a raised ValueError.
Parsed(n) == [ok |-> TRUE, v |-> n]
ParseError == [ok |-> FALSE, v |-> 0]

\* Python: int(s) for a str: surrounding white space is ignored, one sign is
\* allowed, the rest must be a non-empty run of digits, which single
\* underscores may group, of no more digits than int() converts; ValueError
\* otherwise.
PyInt(s) ==
  LET t == NumberStrip(s)
      signed == t # <<>> /\ t[1] \in {"+", "-"}
      body == IF signed THEN Tail(t) ELSE t
  IN IF body = <<>> \/ ~Grouped(body) THEN ParseError
     ELSE IF Len(WithoutUnderscores(body)) > IntMaxStrDigits THEN ParseError
     ELSE IF signed /\ t[1] = "-"
     THEN Parsed(0 - DecimalValue(WithoutUnderscores(body)))
     ELSE Parsed(DecimalValue(WithoutUnderscores(body)))

(***************************************************************************)
(* Literals of the login code                                              *)
(***************************************************************************)

\* "The email or password provided is incorrect"
BadPasswordPhrase ==
  <<"T", "h", "e", " ", "e", "m", "a", "i", "l", " ", "o", "r", " ", "p",
  "a", "s", "s", "w", "o", "r", "d", " ", "p", "r", "o", "v", "i", "d", "e",
  "d", " ", "i", "s", " ", "i", "n", "c", "o", "r", "r", "e", "c", "t">>

\* "The email address is not in the correct format"
BadEmailPhrase ==
  <<"T", "h", "e", " ", "e", "m", "a", "i", "l", " ", "a", "d", "d", "r",
  "e", "s", "s", " ", "i", "s", " ", "n", "o", "t", " ", "i", "n", " ", "t",
  "h", "e", " ", "c", "o", "r", "r", "e", "c", "t", " ", "f", "o", "r", "m",
  "a", "t">>

\* "TooManyAttempts"
TooManyAttemptsMark ==
  <<"T", "o", "o", "M", "a", "n", "y", "A", "t", "t", "e", "m", "p", "t",
  "s">>

\* "portal/"
PortalSlash == <<"p", "o", "r", "t", "a", "l", "/">>

\* "/Error"
ErrorMark == <<"/", "E", "r", "r", "o", "r">>

\* "/"
Slash == <<"/">>

\* "locationId="
LocationIdEq == <<"l", "o", "c", "a", "t", "i", "o", "n", "I", "d", "=">>

\* The status code of a successful HTTP response.
HttpOk == 200

(***************************************************************************)
(* Python optional integers: None is <<>>, the integer n is <<n>>.         *)
(***************************************************************************)
None == <<>>
Some(n) == <<n>>

(***************************************************************************)
(* PyHTCC._set_location_id_from_result                                     *)
(***************************************************************************)

\* The end of the run of digits of text that starts at position i.
DigitRunEnd(text, i) ==
  CHOOSE m \in i..Len(text) :
    /\ m < Len(text) => text[m + 1] \notin Digits
    /\ \A n \in (i + 1)..m : text[n] \in Digits

\* True when the pattern locationId=(\d+) matches text at position i.
LocationIdMatchAt(text, i) ==
  /\ OccursAt(text, LocationIdEq, i)
  /\ i + Len(LocationIdEq) <= Len(text)
  /\ text[i + Len(LocationIdEq)] \in Digits

\* re.findall(r"locationId=(\d+)", text) on text from position k on: the
\* captured digit runs of the non-overlapping matches, leftmost first.
RECURSIVE FindAllLocationId(_, _)
FindAllLocationId(text, k) ==
  LET starts == {i \in k..Len(text) : LocationIdMatchAt(text, i)}
  IN IF starts = {} THEN <<>>
     ELSE LET i == CHOOSE m \in starts : \A n \in starts : m <= n
              first == i + Len(LocationIdEq)
              last == DigitRunEnd(text, first)
          IN <<Slice(text, first, last)>> \o FindAllLocationId(text, last + 1)

\* A variant of the extraction that takes the last match of the body.
SetLocationIdFromLastMatch(result, old) ==
  LET afterPortal == Split(result.url, PortalSlash)
  IN IF Len(afterPortal) < 2
     THEN [exc |-> "IndexError", locationId |-> old]
     ELSE LET fromUrl == PyInt(Split(afterPortal[2], Slash)[1])
              found == FindAllLocationId(result.text, 1)
          IN IF fromUrl.ok
             THEN [exc |-> "ok", locationId |-> Some(fromUrl.v)]
             ELSE IF found = <<>>
             THEN [exc |-> "IndexError", locationId |-> old]
             ELSE IF ~PyInt(found[Len(found)]).ok
             THEN [exc |-> "ValueError", locationId |-> old]
             ELSE [exc |-> "ok", locationId |-> Some(PyInt(found[Len(found)]).v)]

\* _set_location_id_from_result(result) with self._locationId = old: the
\* exception raised ("ok" for none) and the value of self._locationId after.
\* The ValueError of int() for the URL segment is caught and the body is
\* read; the one for the digits of the body leaves the call.
SetLocationIdFromResult(result, old) ==
  LET afterPortal == Split(result.url, PortalSlash)
  IN IF Len(afterPortal) < 2
     THEN [exc |-> "IndexError", locationId |-> old]
     ELSE LET fromUrl == PyInt(Split(afterPortal[2], Slash)[1])
              found == FindAllLocationId(result.text, 1)
          IN IF fromUrl.ok
             THEN [exc |-> "ok", locationId |-> Some(fromUrl.v)]
             ELSE IF found = <<>>
             THEN [exc |-> "IndexError", locationId |-> old]
             ELSE IF ~PyInt(found[1]).ok
             THEN [exc |-> "ValueError", locationId |-> old]
             ELSE [exc |-> "ok", locationId |-> Some(PyInt(found[1]).v)]

(***************************************************************************)
(* PyHTCC._do_authenticate                                                 *)
(***************************************************************************)

\* A variant of the classification that looks for "/Error" in the URL
\* before it looks for "TooManyAttempts".
LoginCheckErrorFirst(result) ==
  IF result.status # HttpOk THEN "AuthenticationError"
  ELSE IF \/ Contains(result.text, BadPasswordPhrase)
          \/ Contains(result.text, BadEmailPhrase)
  THEN "LoginCredentialsInvalidError"
  ELSE IF ~Contains(result.url, PortalSlash) THEN "RedirectDidNotHappenError"
  ELSE IF Contains(result.url, ErrorMark) THEN "LoginUnexpectedError"
  ELSE IF Contains(result.url, TooManyAttemptsMark) THEN "TooManyAttemptsError"
  ELSE "extract"

\* The classification of the login response by the checks of
\* _do_authenticate, in the order of the code; "extract" when none raises.
LoginCheck(result) ==
  IF result.status # HttpOk THEN "AuthenticationError"
  ELSE IF \/ Contains(result.text, BadPasswordPhrase)
          \/ Contains(result.text, BadEmailPhrase)
  THEN "LoginCredentialsInvalidError"
  ELSE IF Contains(result.url, TooManyAttemptsMark) THEN "TooManyAttemptsError"
  ELSE IF ~Contains(result.url, PortalSlash) THEN "RedirectDidNotHappenError"
  ELSE IF Contains(result.url, ErrorMark) THEN "LoginUnexpectedError"
  ELSE "extract"

\* A requests.session() object is known by its identity only, and every
\* call of requests.session() makes an object that was not there before:
\* the sessions of a client are numbered as they are made.  0 is the
\* attribute not set yet (before the first login attempt).
NewSession(old) == old + 1

\* A variant that stores the new session only when no check raises.
DoAuthenticateStoringOnSuccess(result, oldSession, oldLocationId) ==
  LET check == LoginCheck(result)
      set == SetLocationIdFromResult(result, oldLocationId)
  IN IF check # "extract"
     THEN [exc |-> check, session |-> oldSession, locationId |-> oldLocationId]
     ELSE [exc |-> set.exc, session |-> NewSession(oldSession),
           locationId |-> set.locationId]

\* _do_authenticate() when the portal answers the login POST with result:
\* the exception raised ("ok" for none), self.session and self._locationId
\* after the call.
DoAuthenticate(result, oldSession, oldLocationId) ==
  LET check == LoginCheck(result)
      set == SetLocationIdFromResult(result, oldLocationId)
  IN IF check # "extract"
     THEN [exc |-> check, session |-> NewSession(oldSession),
           locationId |-> oldLocationId]
     ELSE [exc |-> set.exc, session |-> NewSession(oldSession),
           locationId |-> set.locationId]

(***************************************************************************)
(* PyHTCC.authenticate: the retry loop                                     *)
(***************************************************************************)

\* range(100) of authenticate()
MaxTries == 100

\* A variant of the except clause that also catches rejected credentials.
RetryableAndCredentials ==
  {"TooManyAttemptsError", "RedirectDidNotHappenError", "LoginUnexpectedError",
   "LoginCredentialsInvalidError"}

\* The exceptions authenticate() catches
Retryable ==
  {"TooManyAttemptsError", "RedirectDidNotHappenError", "LoginUnexpectedError"}

\* Python integers are unbounded and 2**99 does not fit a machine word: a
\* number of seconds is the sequence of its decimal digits, lowest first.
\* Twice d plus carry (0 or 1): a digit takes a carry when the digit below
\* it is 5 or more.
DoubleDigits(d, carry) ==
  LET n == Len(d)
      t == [k \in 1..(n + 1) |->
              ((IF k <= n THEN 2 * d[k] ELSE 0)
               + (IF k = 1 THEN carry ELSE IF d[k - 1] >= 5 THEN 1 ELSE 0)) % 10]
  IN IF t[n + 1] = 0 THEN SubSeq(t, 1, n) ELSE SubSeq(t, 1, n + 1)

\* The one element of a set of one: Only({F(v) : v \in {e}}) is F(e) with
\* e evaluated once
Only(S) == CHOOSE x \in S : TRUE

\* d doubled k times
RECURSIVE Doubled(_, _)
Doubled(d, k) ==
  IF k = 0 THEN d
  ELSE Only({ Doubled(twice, k - 1) : twice \in {DoubleDigits(d, 0)} })

\* Python: 2**n, by ten doublings at a time
RECURSIVE PowerOfTwo(_)
PowerOfTwo(n) ==
  IF n <= 10 THEN Doubled(<<1>>, n)
  ELSE Only({ Doubled(p, 10) : p \in {PowerOfTwo(n - 10)} })

\* The longest time.sleep() takes, in seconds: its clock counts nanoseconds
\* in 64 bits, 2**63 - 1 at most, which is 9223372036 s (digits lowest first)
PyTimeMaxSeconds == <<6, 3, 0, 2, 7, 3, 3, 2, 2, 9>>

\* a > b for two numbers given by their decimal digits, lowest first
RECURSIVE DigitsGreater(_, _)
DigitsGreater(a, b) ==
  IF Len(a) # Len(b) THEN Len(a) > Len(b)
  ELSE IF a = <<>> THEN FALSE
  ELSE IF a[Len(a)] # b[Len(b)] THEN a[Len(a)] > b[Len(b)]
  ELSE DigitsGreater(SubSeq(a, 1, Len(a) - 1), SubSeq(b, 1, Len(b) - 1))

\* num_seconds of authenticate() after attempt n failed
SleepSeconds(n) == PowerOfTwo(n)

\* time.sleep(2**n) raises OverflowError when 2**n seconds are more than
\* its clock holds
SleepOverflows(n) == DigitsGreater(SleepSeconds(n), PyTimeMaxSeconds)

\* How time.sleep(2**n) of authenticate() ends: it returns after 2**n
\* seconds, or raises OverflowError for a time too long.  A time.sleep that
\* took the time before (half as long, itself too long) has been replaced
\* by the caller, as the tests do, and returns.
TimeSleepOutcomes(n) ==
  IF ~SleepOverflows(n) THEN {"ok"}
  ELSE IF n > 0 /\ SleepOverflows(n - 1) THEN {"ok"}
  ELSE {"ok", "OverflowError"}

(***************************************************************************)
(* State                                                                   *)
(***************************************************************************)
VARIABLES
  session,     \* self.session: 0 not set yet, else the identity of the object
  locationId,  \* self._locationId
  nameCache,   \* the lru_cache of _get_name_for_device_id: device id -> name
  pc,          \* where the client is: "idle" between calls, else inside one
  op,          \* the public call in progress or, when idle, the last one made
  exc,         \* the exception the last finished call raised, "ok" for none
  ret,         \* the value the last finished call returned
  i,           \* authenticate(): the loop variable
  attempts,    \* authenticate(): calls of _do_authenticate made by this call
  sleepCount,  \* authenticate(): calls of time.sleep made by this call
  slept,       \* authenticate(): the argument of the last time.sleep
  lastLogin,   \* authenticate(): what the last _do_authenticate raised
  arg,         \* the argument of a direct call of a private method
  before,      \* the client's fields when the call in progress started
  zones,       \* get_zones_info(): the local list zones
  page_num,    \* get_zones_info(): the loop variable of the page loop
  idx,         \* get_zones_info(): the loop variable of the per-zone loop
  log,         \* the fetches of the call in progress or last finished
  portal,      \* what the portal serves: its zone list and device data
  view         \* a Zone object of the caller: its device_id and zone_info

clientVars == <<session, locationId, nameCache>>
authVars == <<i, attempts, sleepCount, slept, lastLogin>>
zonesVars == <<zones, page_num, idx>>
vars ==
  <<session, locationId, nameCache, pc, op, exc, ret, i, attempts, sleepCount,
    slept, lastLogin, arg, before, zones, page_num, idx, log, portal, view>>

\* The fields of the client a login attempt may write
Fields == [session |-> session, locationId |-> locationId]

(***************************************************************************)
(* The answers of the portal to the login POST                             *)
(***************************************************************************)

\* Python: "/".join(segments)
RECURSIVE Join(_)
Join(segments) ==
  IF Len(segments) = 0 THEN <<>>
  ELSE IF Len(segments) = 1 THEN segments[1]
  ELSE segments[1] \o Slash \o Join(Tail(segments))

\* The longest path of a URL the login ends at, in segments
MaxPath == 3

PathSegments ==
  { <<>>,
    <<"p", "o", "r", "t", "a", "l">>,
    <<"1", "2", "3", "4", "5">>,
    <<"-", "7">>,
    <<"\r", "1", "_", "2">>,
    <<"D", "e", "v", "i", "c", "e">>,
    <<"E", "r", "r", "o", "r">>,
    TooManyAttemptsMark }

LoginUrls == {Join(p) : p \in UNION {[1..k -> PathSegments] : k \in 0..MaxPath}}

LoginBodies ==
  { <<>>,
    <<"<", "p", ">">> \o BadPasswordPhrase,
    BadEmailPhrase \o LocationIdEq \o <<"U+0663", "4">>,
    LocationIdEq \o <<"3", "4">>,
    LocationIdEq \o <<"&">> \o LocationIdEq \o <<"9", "0", "2", "&">>
      \o LocationIdEq \o <<"6">>,
    LocationIdEq \o <<"x">> }

LoginStatuses == {HttpOk, 500}

LoginResponses == [status : LoginStatuses, text : LoginBodies, url : LoginUrls]

\* Numerals at the limit of int(): 4300 digits with the value 5, and 4301
\* digits
MostDigits == [k \in 1..IntMaxStrDigits |-> IF k = IntMaxStrDigits THEN "5" ELSE "0"]
TooManyDigits == [k \in 1..(IntMaxStrDigits + 1) |-> "0"]

\* Login answers with such numerals, in the URL and in the body
DigitLimitResponses ==
  [status : {HttpOk},
   text : {<<>>, LocationIdEq \o <<"3", "4">>},
   url : {PortalSlash \o MostDigits \o Slash, PortalSlash \o TooManyDigits \o Slash}]
  \cup
  [status : {HttpOk},
   text : {LocationIdEq \o MostDigits,
           LocationIdEq \o TooManyDigits \o <<"&">> \o LocationIdEq \o <<"6">>},
   url : {PortalSlash \o <<"D", "e", "v", "i", "c", "e">>}]

\* "portal/12345/", "portal/Device", "portal/Error", "TooManyAttempts", ""
RetryUrls ==
  { Join(<< <<"p", "o", "r", "t", "a", "l">>, <<"1", "2", "3", "4", "5">>, <<>> >>),
    Join(<< <<"p", "o", "r", "t", "a", "l">>, <<"D", "e", "v", "i", "c", "e">> >>),
    Join(<< <<"p", "o", "r", "t", "a", "l">>, <<"E", "r", "r", "o", "r">> >>),
    TooManyAttemptsMark,
    <<>> }

\* The answers the portal gives inside authenticate(): every outcome of a
\* login attempt is among them.
RetryResponses ==
  [status : LoginStatuses,
   text : {<<>>, BadPasswordPhrase, LocationIdEq \o <<"3", "4">>},
   url : RetryUrls]

(***************************************************************************)
(* PyHTCC.__init__ and PyHTCC.authenticate                                 *)
(***************************************************************************)

NoCall == [session |-> 0, locationId |-> None]

\* The portal before any zone request: its zones play no part yet.
NoPortal == [pages |-> 0, blob |-> <<>>, weather |-> <<>>]

\* The caller has made no Zone object.
NoView == [device_id |-> 0, zone_info |-> <<>>]

\* The state when __init__ has stored the credentials, set _locationId to
\* None and calls authenticate().
Init ==
  /\ session = 0
  /\ locationId = None
  /\ nameCache = <<>>
  /\ pc = "attempt"
  /\ op = "__init__"
  /\ exc = "ok"
  /\ ret = <<>>
  /\ i = 0
  /\ attempts = 0
  /\ sleepCount = 0
  /\ slept = <<>>
  /\ lastLogin = "none"
  /\ arg = <<>>
  /\ before = NoCall
  /\ zones = <<>>
  /\ page_num = 0
  /\ idx = 0
  /\ log = <<>>
  /\ portal = NoPortal
  /\ view = NoView

\* How a call ends: "done" with its outcome in exc and ret; an exception
\* out of __init__ leaves no client behind.
Finished(e) == IF op = "__init__" /\ e # "ok" THEN "dead" ELSE "done"

\* No authenticate() is in progress: its locals are gone.
NoRetryLoop ==
  /\ i' = 0
  /\ attempts' = 0
  /\ sleepCount' = 0
  /\ slept' = <<>>
  /\ lastLogin' = "none"

\* The most session objects a client makes in the calls of authenticate()
\* followed one attempt at a time
MaxSessions == 103

\* A call of authenticate() on the constructed client.
Authenticate ==
  /\ pc = "idle"
  /\ session + MaxTries <= MaxSessions
  /\ pc' = "attempt"
  /\ op' = "authenticate"
  /\ NoRetryLoop
  /\ exc' = "ok"
  /\ ret' = <<>>
  /\ before' = Fields
  /\ log' = <<>>
  /\ UNCHANGED <<clientVars, arg, zonesVars, portal, view>>

\* One pass of the loop body up to the except clause, the portal answering
\* the login POST with one of results: _do_authenticate() returns
\* (authenticate returns), raises a caught exception (the handler runs
\* next) or raises another one (it leaves authenticate).
AttemptOf(results) ==
  /\ pc = "attempt"
  /\ \E result \in results :
       LET d == DoAuthenticate(result, session, locationId)
       IN /\ session' = d.session
          /\ locationId' = d.locationId
          /\ lastLogin' = d.exc
          /\ attempts' = attempts + 1
          /\ log' = Append(log, [kind |-> "login", http |-> 1])
          /\ IF d.exc \in Retryable
             THEN /\ pc' = "sleep"
                  /\ UNCHANGED exc
             ELSE /\ pc' = Finished(d.exc)
                  /\ exc' = d.exc
  /\ UNCHANGED <<nameCache, op, ret, i, sleepCount, slept, arg, before, zonesVars, portal, view>>

\* One pass of the loop with any answer of the portal
Attempt == AttemptOf(RetryResponses)

\* The except clause: sleep 2**i; then the next pass or, after the last
\* one, the raise that follows the loop.  An exception of time.sleep
\* leaves authenticate().
Sleep ==
  /\ pc = "sleep"
  /\ slept' = SleepSeconds(i)
  /\ sleepCount' = sleepCount + 1
  /\ \E outcome \in TimeSleepOutcomes(i) :
       IF outcome # "ok"
       THEN /\ pc' = Finished(outcome)
            /\ exc' = outcome
            /\ UNCHANGED i
       ELSE IF i + 1 < MaxTries
            THEN /\ i' = i + 1
                 /\ pc' = "attempt"
                 /\ UNCHANGED exc
            ELSE /\ pc' = Finished("AuthenticationError")
                 /\ exc' = "AuthenticationError"
                 /\ UNCHANGED i
  /\ UNCHANGED <<clientVars, op, ret, attempts, lastLogin, arg, before, zonesVars, log, portal, view>>

\* The caller has the outcome of the call: its frame is gone and the client
\* waits for the next call.
Return ==
  /\ pc = "done"
  /\ pc' = "idle"
  /\ op' = "none"
  /\ exc' = "ok"
  /\ ret' = <<>>
  /\ before' = NoCall
  /\ zones' = <<>>
  /\ page_num' = 0
  /\ idx' = 0
  /\ log' = <<>>
  /\ arg' = <<>>
  /\ NoRetryLoop
  /\ UNCHANGED <<clientVars, portal, view>>

(***************************************************************************)
(* PyHTCC.deAuthenticate                                                   *)
(***************************************************************************)

\* deAuthenticate(): self.session is an object on a constructed client, so
\* the log-off GET is always sent; its status decides the outcome.
DeAuthenticate ==
  /\ pc = "idle"
  /\ \E status \in LoginStatuses :
       exc' = IF status # HttpOk THEN "DeAuthenticationError" ELSE "ok"
  /\ op' = "deAuthenticate"
  /\ ret' = <<>>
  /\ before' = Fields
  /\ log' = <<[kind |-> "logoff", http |-> 1]>>
  /\ pc' = "done"
  /\ NoRetryLoop
  /\ UNCHANGED <<clientVars, arg, zonesVars, portal, view>>

Next == Authenticate \/ Attempt \/ Sleep \/ DeAuthenticate \/ Return

Spec == Init /\ [][Next]_vars

(***************************************************************************)
(* Direct calls of one login attempt and of the LocationID extraction      *)
(***************************************************************************)

\* The client's fields before the call: inside __init__ (no session yet, no
\* LocationID) or on a constructed client.
LoginPreStates ==
  { [session |-> 0, locationId |-> None],
    [session |-> 1, locationId |-> Some(90210)] }

InitLogin ==
  /\ \E f \in LoginPreStates :
       /\ session = f.session
       /\ locationId = f.locationId
       /\ before = f
  /\ arg \in LoginResponses \cup DigitLimitResponses
  /\ nameCache = <<>>
  /\ pc = "call"
  /\ op = "none"
  /\ exc = "ok"
  /\ ret = <<>>
  /\ i = 0
  /\ attempts = 0
  /\ sleepCount = 0
  /\ slept = <<>>
  /\ lastLogin = "none"
  /\ zones = <<>>
  /\ page_num = 0
  /\ idx = 0
  /\ log = <<>>
  /\ portal = NoPortal
  /\ view = NoView

\* self._do_authenticate() with the portal answering arg
CallDoAuthenticate ==
  /\ pc = "call"
  /\ LET d == DoAuthenticate(arg, session, locationId)
     IN /\ session' = d.session
        /\ locationId' = d.locationId
        /\ exc' = d.exc
  /\ pc' = "returned"
  /\ op' = "_do_authenticate"
  /\ log' = <<[kind |-> "login", http |-> 1]>>
  /\ UNCHANGED <<nameCache, ret, authVars, arg, before, zonesVars, portal, view>>

\* self._set_location_id_from_result(arg)
CallSetLocationId ==
  /\ pc = "call"
  /\ LET d == SetLocationIdFromResult(arg, locationId)
     IN /\ locationId' = d.locationId
        /\ exc' = d.exc
  /\ pc' = "returned"
  /\ op' = "_set_location_id_from_result"
  /\ UNCHANGED <<session, nameCache, ret, authVars, arg, before, zonesVars, log, portal, view>>

NextLogin == CallDoAuthenticate \/ CallSetLocationId

SpecLogin == InitLogin /\ [][NextLogin]_vars

(***************************************************************************)
(* Properties of one login attempt                                         *)
(***************************************************************************)

\* The path segment of url that follows its first "portal/": the text from
\* there up to the next "/" or the end.
SegmentAfterPortal(url) ==
  LET rest == Slice(url, Find(url, PortalSlash) + Len(PortalSlash), Len(url))
      stop == Find(rest, Slash)
  IN IF stop = 0 THEN rest ELSE Slice(rest, 1, stop - 1)

\* The positions of text where "locationId=" is followed by a digit
LocationIdPlaces(text) == {k \in 1..Len(text) : LocationIdMatchAt(text, k)}

\* The digits that follow "locationId=" at position k
DigitsAt(text, k) ==
  LET from == k + Len(LocationIdEq)
      to == CHOOSE m \in from..Len(text) :
              /\ (m < Len(text) => text[m + 1] \notin Digits)
              /\ \A n \in from..m : text[n] \in Digits
  IN Slice(text, from, to)

\* The digits of the first locationId=<digits> of text, none when there is
\* no such place
FirstLocationIdDigits(text) ==
  LET places == LocationIdPlaces(text)
  IN IF places = {} THEN <<>>
     ELSE DigitsAt(text, CHOOSE k \in places : \A n \in places : k <= n)

\* A numeral of digits that int() converts: it has a digit and no more
\* than 4300 of them
Convertible(digits) == digits # <<>> /\ Len(digits) <= IntMaxStrDigits

\* The first rule of the list that matches a login response
FirstRule(r) ==
  CASE r.status # HttpOk -> "AuthenticationError"
    [] r.status = HttpOk
       /\ (Contains(r.text, BadPasswordPhrase) \/ Contains(r.text, BadEmailPhrase))
       -> "LoginCredentialsInvalidError"
    [] OTHER ->
       CASE Contains(r.url, TooManyAttemptsMark) -> "TooManyAttemptsError"
         [] ~Contains(r.url, TooManyAttemptsMark) /\ ~Contains(r.url, PortalSlash)
            -> "RedirectDidNotHappenError"
         [] ~Contains(r.url, TooManyAttemptsMark) /\ Contains(r.url, PortalSlash)
            /\ Contains(r.url, ErrorMark)
            -> "LoginUnexpectedError"
         [] OTHER -> "success"

\* One of the two sources of a LocationID yields an integer
YieldsLocationId(r) ==
  \/ PyInt(SegmentAfterPortal(r.url)).ok
  \/ Convertible(FirstLocationIdDigits(r.text))

AttemptReturned == pc = "returned" /\ op = "_do_authenticate"

\* C3 as stated: the first matching rule decides the outcome of a login
\* attempt, and an attempt that no failure rule matches succeeds.
C3_FirstRuleAlwaysDecides ==
  AttemptReturned =>
    exc = (IF FirstRule(arg) = "success" THEN "ok" ELSE FirstRule(arg))

\* C3, amended: the first matching failure rule decides the outcome of a
\* login attempt; when none matches the LocationID extraction runs, and the
\* attempt succeeds with a LocationID stored when the URL segment or the
\* body yields an integer; when neither does it fails with IndexError for
\* a body without locationId=<digits> and with ValueError for a body whose
\* first locationId=<digits> has more digits than int() converts.
C3_FirstRuleDecides ==
  AttemptReturned =>
    IF FirstRule(arg) # "success" THEN exc = FirstRule(arg)
    ELSE IF YieldsLocationId(arg) THEN exc = "ok" /\ locationId # None
    ELSE IF FirstLocationIdDigits(arg.text) = <<>> THEN exc = "IndexError"
    ELSE exc = "ValueError"

\* C3 witness: an attempt whose URL matches two rules failed by the earlier.
C3_Witness ==
  /\ AttemptReturned
  /\ arg.status = HttpOk
  /\ Contains(arg.url, TooManyAttemptsMark)
  /\ Contains(arg.url, ErrorMark)
  /\ Contains(arg.url, PortalSlash)
  /\ exc = "TooManyAttemptsError"

\* An attempt whose body has 4301 digits after its first locationId= and
\* whose URL segment is no integer raised ValueError.
C3_TooManyDigitsReached ==
  /\ AttemptReturned
  /\ FirstRule(arg) = "success"
  /\ Len(FirstLocationIdDigits(arg.text)) = IntMaxStrDigits + 1
  /\ exc = "ValueError"
  /\ locationId = before.locationId

ExtractionReturned ==
  /\ pc = "returned"
  /\ op = "_set_location_id_from_result"
  /\ Contains(arg.url, PortalSlash)

\* A URL segment of 4301 digits was passed over for the body.
C4_TooManyDigitsReached ==
  /\ ExtractionReturned
  /\ Len(SegmentAfterPortal(arg.url)) = IntMaxStrDigits + 1
  /\ exc = "ok"
  /\ locationId = Some(34)

\* A numeral of 4300 digits in the body was converted.
C4_MostDigitsReached ==
  /\ ExtractionReturned
  /\ Len(FirstLocationIdDigits(arg.text)) = IntMaxStrDigits
  /\ exc = "ok"
  /\ locationId = Some(5)

\* C4: the LocationID stored is the integer of the URL segment after
\* "portal/" when that segment is an integer, else the integer of the first
\* locationId=<digits> of the body; when there is neither the extraction
\* raises and the stored LocationID is the one from before the call.  A
\* numeral is an integer here when int() converts it (4300 digits at most).
C4_LocationIdExtraction ==
  ExtractionReturned =>
    LET seg == PyInt(SegmentAfterPortal(arg.url))
        digits == FirstLocationIdDigits(arg.text)
    IN IF seg.ok THEN exc = "ok" /\ locationId = Some(seg.v)
       ELSE IF Convertible(digits)
       THEN exc = "ok" /\ locationId = Some(DecimalValue(digits))
       ELSE exc # "ok" /\ locationId = before.locationId

\* C4 witness: a segment that is no integer, a body with several
\* locationId= occurrences, and the LocationID taken from the body.
C4_Witness ==
  /\ ExtractionReturned
  /\ ~PyInt(SegmentAfterPortal(arg.url)).ok
  /\ Cardinality(LocationIdPlaces(arg.text)) > 1
  /\ locationId = Some(902)
  /\ before.locationId = Some(90210)

(***************************************************************************)
(* Properties of authenticate()                                            *)
(***************************************************************************)

\* Half of an even number, on its decimal digits (lowest first): the digit
\* at k is half of digit k, plus 5 when the digit above it is odd.
HalfDigits(d) ==
  LET h == [k \in 1..Len(d) |->
              (d[k] \div 2) + (IF k < Len(d) /\ d[k + 1] % 2 = 1 THEN 5 ELSE 0)]
  IN IF Len(d) > 1 /\ h[Len(d)] = 0
     THEN SubSeq(h, 1, Len(d) - 1)
     ELSE SubSeq(h, 1, Len(d))

\* d halved k times, each time exactly; no digits when a halving is not
\* exact
RECURSIVE HalvedExactly(_, _)
HalvedExactly(d, k) ==
  IF k = 0 THEN d
  ELSE IF d = <<>> \/ d[1] % 2 # 0 THEN <<>>
  ELSE Only({ HalvedExactly(half, k - 1) : half \in {HalfDigits(d)} })

\* d is the number 2^n: halving it n times, always exactly, leaves 1.
RECURSIVE IsTwoToThe(_, _)
IsTwoToThe(d, n) ==
  IF n <= 10 THEN HalvedExactly(d, n) = <<1>>
  ELSE Only({ IsTwoToThe(rest, n - 10) : rest \in {HalvedExactly(d, 10)} })

\* The three errors after which authenticate() tries again
ThreeErrors ==
  {"TooManyAttemptsError", "RedirectDidNotHappenError", "LoginUnexpectedError"}

AuthenticateOver == pc \in {"done", "dead"} /\ op \in {"__init__", "authenticate"}

\* C1 as stated: attempt i starts after exactly i failed attempts and i
\* sleeps, the last of them of 2^(i-1); a failed attempt is followed by its
\* sleep; a
\* successful attempt ends authenticate() with no sleep after it; when
\* every attempt failed in a retryable way there were exactly 100 attempts,
\* each followed by its sleep, and AuthenticationError is raised.
C1_RetryLoop ==
  /\ pc = "attempt" =>
       /\ i < 100
       /\ attempts = i
       /\ sleepCount = i
       /\ i > 0 => lastLogin \in ThreeErrors /\ IsTwoToThe(slept, i - 1)
  /\ pc = "sleep" =>
       /\ lastLogin \in ThreeErrors
       /\ attempts = i + 1
       /\ sleepCount = i
  /\ AuthenticateOver /\ lastLogin = "ok" =>
       /\ exc = "ok"
       /\ attempts = i + 1
       /\ sleepCount = i
  /\ AuthenticateOver /\ lastLogin \in ThreeErrors =>
       /\ attempts = 100
       /\ sleepCount = 100
       /\ IsTwoToThe(slept, 99)
       /\ exc = "AuthenticationError"

\* C1 witness: every attempt failed in a retryable way, and the call ended
\* after 35 attempts, when time.sleep(2**34) raised OverflowError.
C1_Witness ==
  /\ AuthenticateOver
  /\ lastLogin \in ThreeErrors
  /\ exc = "OverflowError"
  /\ attempts = 35
  /\ sleepCount = 35
  /\ i = 34
  /\ IsTwoToThe(slept, 34)

\* With time.sleep replaced, authenticate() gave up after its hundredth
\* failed attempt.
C1_HundredAttemptsReached ==
  /\ AuthenticateOver
  /\ lastLogin = "RedirectDidNotHappenError"
  /\ exc = "AuthenticationError"
  /\ attempts = 100
  /\ Len(slept) = 30

\* C2: a login attempt that raised anything but the three retryable
\* errors ended authenticate() with that very error: no sleep followed it
\* and it was the last attempt, whatever its number.
C2_OtherErrorsPropagate ==
  lastLogin \notin (ThreeErrors \cup {"ok", "none"}) =>
    /\ pc \in {"done", "dead"}
    /\ exc = lastLogin
    /\ attempts = i + 1
    /\ sleepCount = i

\* C2 witness: the last possible attempt was refused for its credentials.
C2_Witness ==
  /\ lastLogin = "LoginCredentialsInvalidError"
  /\ exc = "LoginCredentialsInvalidError"
  /\ op = "authenticate"
  /\ i = 99

(***************************************************************************)
(* Literals of the zone code                                               *)
(***************************************************************************)

\* "Control.Model.Property.outdoorTemp,"
OutdoorTempMark ==
  <<"C", "o", "n", "t", "r", "o", "l", ".", "M", "o", "d", "e", "l", ".",
  "P", "r", "o", "p", "e", "r", "t", "y", ".", "o", "u", "t", "d", "o", "o",
  "r", "T", "e", "m", "p", ",">>

\* "Control.Model.Property.outdoorHumidity,"
OutdoorHumidityMark ==
  <<"C", "o", "n", "t", "r", "o", "l", ".", "M", "o", "d", "e", "l", ".",
  "P", "r", "o", "p", "e", "r", "t", "y", ".", "o", "u", "t", "d", "o", "o",
  "r", "H", "u", "m", "i", "d", "i", "t", "y", ",">>

\* ")"
CloseParen == <<")">>

\* "Unauthorized: Access is denied due to invalid credentials"
UnauthorizedMark ==
  <<"U", "n", "a", "u", "t", "h", "o", "r", "i", "z", "e", "d", ":", " ",
  "A", "c", "c", "e", "s", "s", " ", "i", "s", " ", "d", "e", "n", "i", "e",
  "d", " ", "d", "u", "e", " ", "t", "o", " ", "i", "n", "v", "a", "l", "i",
  "d", " ", "c", "r", "e", "d", "e", "n", "t", "i", "a", "l", "s">>

\* "id="
IdEq == <<"i", "d", "=">>

\* ""ZoneName""
QuotedZoneName == <<"\"", "Z", "o", "n", "e", "N", "a", "m", "e", "\"">>

\* ">"
Greater == <<">">>

\* " Control<"
ControlLess == <<" ", "C", "o", "n", "t", "r", "o", "l", "<">>

\* The status code the portal gives an unauthorized request
HttpUnauthorized == 401

(***************************************************************************)
(* JSON bodies.  requests decodes the body: result.json() is the decoded   *)
(* value (None, a list or a dict) or raises JSONDecodeError.               *)
(***************************************************************************)
JsonError == [kind |-> "error"]
JsonNull == [kind |-> "null"]
JsonList(items) == [kind |-> "list", items |-> items]
JsonDict(fields) == [kind |-> "dict", fields |-> fields]
JsonNumber(n) == [kind |-> "number", value |-> n]
JsonBool(b) == [kind |-> "bool", value |-> b]
JsonString(text) == [kind |-> "string", value |-> text]

\* A dict with its keys as the document spells them, in the order of the
\* document: what the text of a dict shows beside its values
JsonDictAs(keys, fields) == [kind |-> "dict", fields |-> fields, keys |-> keys]

\* Python: not data
Falsy(data) ==
  \/ data = JsonNull
  \/ data.kind = "list" /\ data.items = <<>>
  \/ data.kind = "dict" /\ DOMAIN data.fields = {}
  \/ data.kind = "number" /\ data.value = 0
  \/ data.kind = "bool" /\ ~data.value
  \/ data.kind = "string" /\ data.value = <<>>

(***************************************************************************)
(* PyHTCC._request_json                                                    *)
(***************************************************************************)

\* A variant that classifies a failure as unauthorized by the body only.
RequestJsonBodyOnly(result) ==
  LET result_json == IF result.json = JsonError THEN JsonNull ELSE result.json
  IN IF result.status # HttpOk \/ result_json = JsonNull
     THEN IF Contains(result.text, UnauthorizedMark)
          THEN [exc |-> "UnauthorizedError", value |-> JsonNull]
          ELSE [exc |-> "UnexpectedError", value |-> JsonNull]
     ELSE [exc |-> "ok", value |-> result_json]

\* _request_json(...) when the portal answers result: the exception raised
\* ("ok" for none) and the value returned.
RequestJson(result) ==
  LET result_json == IF result.json = JsonError THEN JsonNull ELSE result.json
  IN IF result.status # HttpOk \/ result_json = JsonNull
     THEN IF \/ Contains(result.text, UnauthorizedMark)
             \/ result.status = HttpUnauthorized
          THEN [exc |-> "UnauthorizedError", value |-> JsonNull]
          ELSE [exc |-> "UnexpectedError", value |-> JsonNull]
     ELSE [exc |-> "ok", value |-> result_json]

\* A variant that catches every error of the request.
PostZoneListDataCatchAll(result) ==
  LET r == RequestJson(result)
  IN IF r.exc # "ok" THEN [exc |-> "ok", value |-> JsonNull] ELSE r

\* _post_zone_list_data(page_num): UnexpectedError becomes a return of None.
PostZoneListData(result) ==
  LET r == RequestJson(result)
  IN IF r.exc = "UnexpectedError" THEN [exc |-> "ok", value |-> JsonNull] ELSE r

(***************************************************************************)
(* PyHTCC._get_outdoor_weather_info_for_zone                               *)
(***************************************************************************)

\* A float of Python is an IEEE 754 double: a mantissa below 2^53 times a
\* power of two from 2^-1074 to 2^971, or an infinity, or not a number.
\* Every finite double is a decimal of finitely many digits, and so it is
\* written here: [kind |-> "finite", negative, digits, scale] is the number
\* digits / 10^scale, digits lowest first without zeros at the top, and no
\* zero at the bottom when scale > 0.
MantissaBits == 53
MaxBinaryExponent == 971
MinBinaryExponent == 0 - 1074

\* The least whole part of 53 bits, and the least one of more bits
FullMantissa == PowerOfTwo(MantissaBits - 1)
MantissaLimit == PowerOfTwo(MantissaBits)

\* Five halvings in a row are due from 2^57 on, five doublings below 2^48
HalvingLimit == PowerOfTwo(MantissaBits + 4)
DoublingLimit == PowerOfTwo(MantissaBits - 5)

\* A number of 10^309 or more is more than every double; a number below
\* 10^-324 is less than half the least double
MaxDecimalMagnitude == 309
MinDecimalMagnitude == 0 - 324

Infinity(negative) ==
  [ok |-> TRUE, kind |-> "inf", negative |-> negative, digits |-> <<>>, scale |-> 0]
NotANumber(negative) ==
  [ok |-> TRUE, kind |-> "nan", negative |-> negative, digits |-> <<>>, scale |-> 0]
FloatValueError ==
  [ok |-> FALSE, kind |-> "nan", negative |-> FALSE, digits |-> <<>>, scale |-> 0]

\* Five times d, on its decimal digits (lowest first): half of d with one
\* more digit after the point
FiveTimesDigits(d) ==
  LET n == Len(d)
      t == [k \in 1..(n + 1) |->
              (IF k <= n THEN 5 * (d[k] % 2) ELSE 0)
              + (IF k > 1 THEN d[k - 1] \div 2 ELSE 0)]
  IN IF t[n + 1] = 0 THEN SubSeq(t, 1, n) ELSE SubSeq(t, 1, n + 1)

\* d + 1 on the decimal digits of d
NextDigits(d) ==
  LET j == CHOOSE k \in 1..(Len(d) + 1) :
             /\ k <= Len(d) => d[k] # 9
             /\ \A m \in 1..(k - 1) : d[m] = 9
      n == IF j > Len(d) THEN j ELSE Len(d)
      t == [k \in 1..n |->
              IF k < j THEN 0
              ELSE IF k > j THEN d[k]
              ELSE IF j > Len(d) THEN 1 ELSE d[j] + 1]
  IN SubSeq(t, 1, n)

\* The digits of x / 10^scale before the point: its whole part
WholeDigits(x, scale) == Slice(x, scale + 1, Len(x))

\* The natural number of decimal digits given lowest first
RECURSIVE NaturalOf(_)
NaturalOf(d) == IF d = <<>> THEN 0 ELSE d[1] + 10 * NaturalOf(Tail(d))

\* x / 10^scale without the zeros that end it after the point
WithoutTrailingZeros(x, scale) ==
  LET most == IF scale < Len(x) THEN scale ELSE Len(x)
      z == CHOOSE k \in 0..most :
             /\ k < most => x[k + 1] # 0
             /\ \A j \in 1..k : x[j] = 0
  IN IF x = <<>> THEN [digits |-> <<>>, scale |-> 0]
     ELSE [digits |-> Slice(x, z + 1, Len(x)), scale |-> scale - z]

\* The digit of d at place k (the lowest place is 1), zero beyond its length
DigitAt(d, k) == IF k >= 1 /\ k <= Len(d) THEN d[k] ELSE 0

\* The five digits of d from place 5 * j - 4 on, as one number
FiveDigitsAt(d, j) ==
  DigitAt(d, 5 * j - 4) + 10 * DigitAt(d, 5 * j - 3) + 100 * DigitAt(d, 5 * j - 2)
  + 1000 * DigitAt(d, 5 * j - 1) + 10000 * DigitAt(d, 5 * j)

\* m times d on its decimal digits, for m = 2^5 and m = 5^5: m divides
\* 10^5, so what five digits carry upwards is decided by these five alone
TimesDigits(d, m) ==
  LET n == Len(d) + 5
      t == [p \in 1..n |->
              LET j == (p - 1) \div 5 + 1
                  here == m * FiveDigitsAt(d, j) + (m * FiveDigitsAt(d, j - 1)) \div 100000
              IN (here \div <<1, 10, 100, 1000, 10000>>[((p - 1) % 5) + 1]) % 10]
      top == CHOOSE k \in Len(d)..n :
               /\ k > 0 => t[k] # 0
               /\ \A q \in (k + 1)..n : t[q] = 0
  IN SubSeq(t, 1, top)

\* The number w.x / 10^w.scale * 2^w.exp, one step nearer to a whole part
\* of 53 bits (phase "mantissa": halved while the whole part is 2^53 or
\* more, doubled while it is below 2^52 and the power of two above the
\* least one), or one step nearer to the power 2^0 (phase "decimal").
\* Halving is five times the digits with one more digit after the point.
FloatStep(w, phase) ==
  LET whole == WholeDigits(w.x, w.scale)
      halve == IF phase = "mantissa"
               THEN ~DigitsGreater(MantissaLimit, whole)
               ELSE w.exp < 0
      halveFive == IF phase = "mantissa"
                   THEN ~DigitsGreater(HalvingLimit, whole)
                   ELSE w.exp <= 0 - 5
      double == IF phase = "mantissa"
                THEN /\ DigitsGreater(FullMantissa, whole)
                     /\ w.exp > MinBinaryExponent
                ELSE w.exp > 0
      doubleFive == IF phase = "mantissa"
                    THEN /\ DigitsGreater(DoublingLimit, whole)
                         /\ w.exp >= MinBinaryExponent + 5
                    ELSE w.exp >= 5
  IN IF halveFive
     THEN [x |-> TimesDigits(w.x, 3125), scale |-> w.scale + 5, exp |-> w.exp + 5]
     ELSE IF halve
     THEN [x |-> FiveTimesDigits(w.x), scale |-> w.scale + 1, exp |-> w.exp + 1]
     ELSE IF doubleFive
     THEN [x |-> TimesDigits(w.x, 32), scale |-> w.scale, exp |-> w.exp - 5]
     ELSE IF double
     THEN [x |-> DoubleDigits(w.x, 0), scale |-> w.scale, exp |-> w.exp - 1]
     ELSE w

\* The steps of a phase from w on until none is left: four times four
\* times four times four at most, which is more than a double ever takes
RECURSIVE FloatSteps(_, _, _, _)
FloatSteps(w, phase, level, n) ==
  IF n = 0 THEN w
  ELSE Only({ IF v = w THEN w ELSE FloatSteps(v, phase, level, n - 1) :
              v \in {IF level = 0 THEN FloatStep(w, phase)
                     ELSE FloatSteps(w, phase, level - 1, 4)} })

\* The double nearest to the positive number x / 10^scale, ties to the even
\* mantissa; the infinity when it is 2^1024 or more
RoundedToDouble(x, scale, negative) ==
  Only({
    LET whole == WholeDigits(w.x, w.scale)
        first == IF w.scale >= 1 /\ w.scale <= Len(w.x) THEN w.x[w.scale] ELSE 0
        rest == \E j \in 1..(w.scale - 1) : j <= Len(w.x) /\ w.x[j] # 0
        odd == whole # <<>> /\ whole[1] % 2 = 1
        up == first > 5 \/ (first = 5 /\ (rest \/ odd))
        mantissa == IF up THEN NextDigits(whole) ELSE whole
    IN IF \/ w.exp > MaxBinaryExponent
          \/ w.exp = MaxBinaryExponent /\ mantissa = MantissaLimit
       THEN Infinity(negative)
       ELSE Only({ Only({ [ok |-> TRUE, kind |-> "finite", negative |-> negative,
                           digits |-> c.digits, scale |-> c.scale] :
                          c \in {WithoutTrailingZeros(d.x, d.scale)} }) :
                   d \in {FloatSteps([x |-> mantissa, scale |-> 0, exp |-> w.exp],
                                     "decimal", 3, 4)} }) :
    w \in {FloatSteps([x |-> x, scale |-> scale, exp |-> 0], "mantissa", 3, 4)} })

\* x / 10^scale is a double when x * 2^scale / 10^scale is a whole number
\* below 2^53 (and scale no more than 1074): it is that number / 2^scale.
IsDouble(x, scale) ==
  /\ scale <= 0 - MinBinaryExponent
  /\ \E d \in {FloatSteps([x |-> x, scale |-> 0, exp |-> scale], "decimal", 3, 4)} :
       /\ \A j \in 1..scale : j > Len(d.x) \/ d.x[j] = 0
       /\ DigitsGreater(MantissaLimit, WholeDigits(d.x, scale))

\* The double nearest to x / 10^scale, x without zeros at the top and
\* without zeros at the bottom when scale > 0: the number itself when it is
\* a double
NearestDouble(x, scale, negative) ==
  IF x = <<>> \/ IsDouble(x, scale)
  THEN [ok |-> TRUE, kind |-> "finite", negative |-> negative,
        digits |-> x, scale |-> scale]
  ELSE RoundedToDouble(x, scale, negative)

\* The decimal numeral with the digits mantissa (characters, highest
\* first), fraction of them after the point, times 10^power: its digits
\* lowest first and their scale, or that it is zero for a double (kind
\* "zero") or beyond every double (kind "inf")
DecimalOf(mantissa, fraction, power) ==
  Only({
    LET n == Len(significant)
        magnitude == n - fraction + power
        zeros == IF power > fraction THEN power - fraction ELSE 0
        x == [k \in 1..(zeros + n) |->
                IF k <= zeros THEN 0 ELSE DigitValue(significant[n + zeros + 1 - k])]
    IN IF n = 0 \/ magnitude <= MinDecimalMagnitude
       THEN [kind |-> "zero", digits |-> <<>>, scale |-> 0]
       ELSE IF magnitude > MaxDecimalMagnitude
       THEN [kind |-> "inf", digits |-> <<>>, scale |-> 0]
       ELSE Only({ [kind |-> "finite", digits |-> c.digits, scale |-> c.scale] :
                   c \in {WithoutTrailingZeros(
                            SubSeq(x, 1, zeros + n),
                            IF fraction > power THEN fraction - power ELSE 0)} }) :
    significant \in {WithoutLeadingZeros(mantissa)} })

\* The double of that decimal numeral
DoubleOfDecimal(mantissa, fraction, power, negative) ==
  Only({ IF c.kind = "inf" THEN Infinity(negative)
         ELSE NearestDouble(c.digits, c.scale, negative) :
         c \in {DecimalOf(mantissa, fraction, power)} })

\* The exponent written with digits: a numeral of more than nine digits is
\* beyond the exponent of every numeral of fewer than 10^9 digits, and 10^9
\* stands for it
PowerOfDigits(digits) ==
  LET significant == WithoutLeadingZeros(digits)
  IN IF Len(significant) > 9 THEN 10 ^ 9 ELSE SignificantValue(significant)

\* Python: str.lower() of a letter of inf, infinity and nan
LowerCase(c) ==
  CASE c = "I" -> "i" [] c = "N" -> "n" [] c = "F" -> "f" [] c = "T" -> "t"
    [] c = "Y" -> "y" [] c = "A" -> "a" [] OTHER -> c

\* The numeral float(s) reads in a str: white space around it is ignored,
\* one sign is allowed; inf, infinity and nan in either case (kinds "inf"
\* and "nan"); otherwise a decimal numeral with an optional fraction and
\* exponent, its digits grouped by single underscores (kind "decimal": the
\* digits, how many of them follow the point, the exponent); kind "error"
\* for every other text
FloatNumeral(s) ==
  Only({ Only({ Only({ Only({ Only({
    LET negative == t # <<>> /\ t[1] = "-"
        powerSigned == power # <<>> /\ power[1] \in {"+", "-"}
        whole == WithoutUnderscores(parts[1])
        frac == IF Len(parts) = 2 THEN WithoutUnderscores(parts[2]) ELSE <<>>
        e == IF mark > Len(body) THEN 0
             ELSE PowerOfDigits(WithoutUnderscores(powerDigits))
        lower == [k \in 1..Len(body) |-> LowerCase(body[k])]
        other(kind) == [kind |-> kind, negative |-> negative,
                        mantissa |-> <<>>, fraction |-> 0, power |-> 0]
    IN IF lower \in {<<"i", "n", "f">>, <<"i", "n", "f", "i", "n", "i", "t", "y">>}
       THEN other("inf")
       ELSE IF lower = <<"n", "a", "n">> THEN other("nan")
       ELSE IF \/ Len(parts) > 2
               \/ ~Grouped(parts[1])
               \/ Len(parts) = 2 /\ ~Grouped(parts[2])
               \/ whole = <<>> /\ frac = <<>>
               \/ mark <= Len(body) /\ (powerDigits = <<>> \/ ~Grouped(powerDigits))
       THEN other("error")
       ELSE [kind |-> "decimal", negative |-> negative,
             mantissa |-> whole \o frac, fraction |-> Len(frac),
             power |-> IF powerSigned /\ power[1] = "-" THEN 0 - e ELSE e] :
    parts \in {Split(Slice(body, 1, mark - 1), <<".">>)},
    powerDigits \in {IF power # <<>> /\ power[1] \in {"+", "-"}
                     THEN Tail(power) ELSE power} }) :
    power \in {Slice(body, mark + 1, Len(body))} }) :
    mark \in {LET marks == {k \in 1..Len(body) : body[k] \in {"e", "E"}}
              IN IF marks = {} THEN Len(body) + 1
                 ELSE CHOOSE k \in marks : \A m \in marks : k <= m} }) :
    body \in {IF t # <<>> /\ t[1] \in {"+", "-"} THEN Tail(t) ELSE t} }) :
    t \in {NumberStrip(s)} })

\* Python: float(s) for a str: the infinity, not-a-number, or the double
\* nearest to the decimal numeral.  ok is FALSE where float(s) raises
\* ValueError.
PyFloat(s) ==
  Only({ CASE n.kind = "inf" -> Infinity(n.negative)
           [] n.kind = "nan" -> NotANumber(n.negative)
           [] n.kind = "error" -> FloatValueError
           [] OTHER -> DoubleOfDecimal(n.mantissa, n.fraction, n.power, n.negative) :
         n \in {FloatNumeral(s)} })

\* A variant of int(f) that rounds down.
FloorOfFloat(f) ==
  LET n == NaturalOf(WholeDigits(f.digits, f.scale))
  IN IF ~f.negative THEN n
     ELSE IF f.scale > 0 THEN 0 - (n + 1) ELSE 0 - n

\* Python: int(f) for a finite float f: the fraction is cut off, towards
\* zero. The digits of the result are WholeDigits(f.digits, f.scale); as a
\* number it is an integer of TLC, 2^31 - 1 at most.
IntOfFloat(f) ==
  LET n == NaturalOf(WholeDigits(f.digits, f.scale))
  IN IF f.negative THEN 0 - n ELSE n

\* One try block of the extraction: the number after mark and before the
\* next ")", as an integer; None when any step raises: float() its
\* ValueError, int() its OverflowError for an infinity and its ValueError
\* for not-a-number.
OutdoorValue(text, mark) ==
  LET after == Split(text, mark)
  IN IF Len(after) < 2 THEN None
     ELSE Only({ IF f.ok /\ f.kind = "finite" THEN Some(IntOfFloat(f)) ELSE None :
                 f \in {PyFloat(Strip(Split1(after[2], CloseParen)[1]))} })

\* Python HTTP: result.raise_for_status() raises for a 4xx or 5xx status.
RaisesForStatus(status) == status >= 400 /\ status < 600

\* _get_outdoor_weather_info_for_zone(device_id) when the portal answers
\* the detail page GET with result.
OutdoorWeatherInfo(result) ==
  IF RaisesForStatus(result.status)
  THEN [exc |-> "HTTPError", value |-> <<>>]
  ELSE [exc |-> "ok",
        value |-> [OutdoorTemperature |-> OutdoorValue(result.text, OutdoorTempMark),
                   OutdoorHumidity |-> OutdoorValue(result.text, OutdoorHumidityMark)]]

(***************************************************************************)
(* PyHTCC._get_name_for_device_id                                          *)
(***************************************************************************)

\* \s of the regular expression: the characters of str.isspace()
RegexSpace == WhiteSpace

\* One position further when the character at k is white space: \s?
SkipSpace(text, k) == IF k <= Len(text) /\ text[k] \in RegexSpace THEN k + 1 ELSE k

\* The match of id=\s?"ZoneName"\s?>(.*) Control< that starts at position k:
\* .* runs to the last " Control<" before the end of the line.
ZoneNameMatchAt(text, k) ==
  LET quote == SkipSpace(text, k + Len(IdEq))
      close == SkipSpace(text, quote + Len(QuotedZoneName))
      breaks == {n \in (close + 1)..Len(text) : text[n] = "\n"}
      lineEnd == IF breaks = {} THEN Len(text) + 1
                 ELSE CHOOSE n \in breaks : \A m \in breaks : n <= m
      ends == {n \in (close + 1)..(lineEnd - Len(ControlLess)) :
                 OccursAt(text, ControlLess, n)}
      last == CHOOSE n \in ends : \A m \in ends : m <= n
  IN IF /\ OccursAt(text, IdEq, k)
        /\ OccursAt(text, QuotedZoneName, quote)
        /\ OccursAt(text, Greater, close)
        /\ ends # {}
     THEN [ok |-> TRUE, name |-> Slice(text, close + 1, last - 1)]
     ELSE [ok |-> FALSE, name |-> <<>>]

\* re.findall(r'id=\s?"ZoneName"\s?>(.*) Control<', text)[0], or IndexError
FirstZoneName(text) ==
  LET starts == {k \in 1..Len(text) : ZoneNameMatchAt(text, k).ok}
  IN IF starts = {} THEN [ok |-> FALSE, name |-> <<>>]
     ELSE ZoneNameMatchAt(text, CHOOSE k \in starts : \A m \in starts : k <= m)

\* A variant of the lookup without the cache.
GetNameUncached(cache, device_id, result) ==
  IF RaisesForStatus(result.status)
  THEN [exc |-> "HTTPError", name |-> <<>>, cache |-> cache, http |-> 1]
  ELSE IF ~FirstZoneName(result.text).ok
  THEN [exc |-> "IndexError", name |-> <<>>, cache |-> cache, http |-> 1]
  ELSE [exc |-> "ok", name |-> FirstZoneName(result.text).name,
        cache |-> (device_id :> FirstZoneName(result.text).name) @@ cache,
        http |-> 1]

\* _get_name_for_device_id(device_id) under functools.lru_cache, the portal
\* answering a detail page GET with result: the exception raised, the name
\* returned, the cache after the call and the number of HTTP requests sent.
\* A call that raises is not cached.
GetNameForDeviceId(cache, device_id, result) ==
  IF device_id \in DOMAIN cache
  THEN [exc |-> "ok", name |-> cache[device_id], cache |-> cache, http |-> 0]
  ELSE IF RaisesForStatus(result.status)
  THEN [exc |-> "HTTPError", name |-> <<>>, cache |-> cache, http |-> 1]
  ELSE IF ~FirstZoneName(result.text).ok
  THEN [exc |-> "IndexError", name |-> <<>>, cache |-> cache, http |-> 1]
  ELSE [exc |-> "ok", name |-> FirstZoneName(result.text).name,
        cache |-> (device_id :> FirstZoneName(result.text).name) @@ cache,
        http |-> 1]

(***************************************************************************)
(* PyHTCC.get_zones_info: the pure parts                                   *)
(***************************************************************************)

\* range(1, 6): the first and the last page number
FirstPage == 1
LastPage == 5

\* A variant of the range without its end.
InPageRangeNoEnd(page) == page >= FirstPage

\* page_num in range(1, 6)
InPageRange(page) == page >= FirstPage /\ page <= LastPage

\* A variant of the page loop in which an empty first page ends the loop.
PageStepBreakOnly(page, data) == IF Falsy(data) THEN "break" ELSE "extend"

\* The branch the body of the page loop takes for the data of page
PageStep(page, data) ==
  IF page = 1 /\ Falsy(data) THEN "NoZonesFoundError"
  ELSE IF Falsy(data) THEN "break"
  ELSE "extend"

\* Python: {**a, **b}
MergeDicts(a, b) ==
  [k \in DOMAIN a \cup DOMAIN b |-> IF k \in DOMAIN b THEN b[k] ELSE a[k]]

\* Python: d[key] = value
SetItem(d, key, value) ==
  [k \in DOMAIN d \cup {key} |-> IF k = key THEN value ELSE d[k]]

\* A variant of the merge in which the zone-list entry wins.
ZoneRecordEntryWins(zone, name, more_data, weather) ==
  MergeDicts(MergeDicts(weather, more_data), SetItem(zone, "Name", name))

\* zones[idx] of the per-zone loop: {**zone, **more_data, **weather} after
\* zone["Name"] = name
ZoneRecord(zone, name, more_data, weather) ==
  MergeDicts(MergeDicts(SetItem(zone, "Name", name), more_data), weather)

(***************************************************************************)
(* The portal: zone list, device data and its answers                      *)
(***************************************************************************)

\* The largest number of non-empty zone-list pages the portal has
MaxPortalPages == 6

DeviceIds == {1, 2}

\* The zone-list entries of page p: two devices on an odd page, one on an
\* even page; MacID tells the entries apart.  The values the library
\* compares (DeviceID, MacID, Name) are written as they are; the values the
\* accessors of a Zone convert are written with their JSON type.
PageEntries(p) ==
  IF p % 2 = 1
  THEN << [DeviceID |-> 2, MacID |-> 10 * p + 1, DispTemp |-> JsonNumber(70 + p),
           Name |-> <<"o", "l", "d">>],
          [DeviceID |-> 1, MacID |-> 10 * p + 2, DispTemp |-> JsonNumber(70 + p)] >>
  ELSE << [DeviceID |-> 1, MacID |-> 10 * p + 1, DispTemp |-> JsonNumber(70 + p)] >>

\* The session-check blobs: one with fields of its own only, one that also
\* has fields of the zone-list entry and of the weather.
SessionBlobs ==
  { [success |-> TRUE,
     latestData |->
       JsonDict([uiData |-> JsonDict([SystemSwitchPosition |-> JsonNumber(3),
                                      EquipmentOutputStatus |-> JsonNumber(2)])])],
    [success |-> TRUE,
     latestData |->
       JsonDict([uiData |-> JsonDict([SystemSwitchPosition |-> JsonNumber(1),
                                      EquipmentOutputStatus |-> JsonNumber(0)])]),
     Name |-> <<"b", "l", "o", "b">>,
     DispTemp |-> JsonNumber(60),
     OutdoorTemperature |-> Some(128)] }

\* The script of the detail page: both outdoor values, or the humidity only.
WeatherScripts ==
  { <<"s", "e", "t", "(">> \o OutdoorHumidityMark \o <<" ", "4", "7", ")", ";", "\n">>
      \o <<"s", "e", "t", "(">> \o OutdoorTempMark \o <<" ", "7", "4", ".", "5", ")", ";">>,
    <<"s", "e", "t", "(">> \o OutdoorHumidityMark \o <<" ", "5", "1", ")", ";">> }

\* The device data the portal has: the plain blob with the full script,
\* or the blob with foreign fields with the humidity only.
PortalData ==
  {d \in [blob : SessionBlobs, weather : WeatherScripts] :
     ("Name" \in DOMAIN d.blob) = (~Contains(d.weather, OutdoorTempMark))}

PortalStates ==
  {[pages |-> n, blob |-> d.blob, weather |-> d.weather] :
     n \in 0..MaxPortalPages, d \in PortalData}

\* The names the portal shows for a device
DeviceNames == {<<"U", "P">>, <<"D", "O", "W", "N">>}

\* <h1 id="ZoneName">name Control</h1>
NameHeader(name) ==
  <<"<", "h", "1", " ">> \o IdEq \o QuotedZoneName \o Greater \o name
    \o ControlLess \o <<"/", "h", "1", ">", "\n">>

\* The bodies of a zone-list answer without zones: [], {}, null, not JSON
EmptyBodies ==
  { [text |-> <<"[", "]">>, json |-> JsonList(<<>>)],
    [text |-> <<"{", "}">>, json |-> JsonDict(<<>>)],
    [text |-> <<"n", "u", "l", "l">>, json |-> JsonNull],
    [text |-> <<"<", "p", ">">>, json |-> JsonError] }

\* The answers to a request the portal refuses: status 401, or the
\* unauthorized page with status 200
RefusedAnswers ==
  { [status |-> HttpUnauthorized, text |-> <<>>, json |-> JsonError],
    [status |-> HttpOk, text |-> UnauthorizedMark, json |-> JsonError] }

\* The answer of a portal in trouble
TroubleAnswer == [status |-> 500, text |-> <<"<", "p", ">">>, json |-> JsonError]

\* The answers to the zone-list POST for page p
ZoneListAnswers(p) ==
  (IF p <= portal.pages
   THEN {[status |-> HttpOk, text |-> <<"[", ".", "]">>,
          json |-> JsonList(PageEntries(p))]}
   ELSE {[status |-> HttpOk, text |-> b.text, json |-> b.json] : b \in EmptyBodies})
  \cup RefusedAnswers \cup {TroubleAnswer}

\* The answers to the session-check GET
SessionAnswers ==
  {[status |-> HttpOk, text |-> <<"{", ".", "}">>, json |-> JsonDict(portal.blob)]}
  \cup RefusedAnswers \cup {TroubleAnswer}

\* The answers to the detail page GET: the page with one of the names, the
\* page without the name header, an error status
DetailAnswers ==
  {[status |-> HttpOk, text |-> NameHeader(n) \o portal.weather] : n \in DeviceNames}
  \cup {[status |-> HttpOk, text |-> portal.weather],
        [status |-> 500, text |-> <<>>]}

\* The answers to the detail page GET that differ for the weather: the
\* name header plays no part in it
WeatherAnswers ==
  {[status |-> HttpOk, text |-> NameHeader(<<"U", "P">>) \o portal.weather],
   [status |-> 500, text |-> <<>>]}

\* The answers to a login after the construction: the account's location
\* page, the login page again, too many attempts, an error status
ReloginResponses == {r \in RetryResponses : r.text = <<>>}

(***************************************************************************)
(* PyHTCC.get_zones_info                                                   *)
(***************************************************************************)

\* A call of get_zones_info() on the constructed client
GetZonesInfo ==
  /\ pc = "idle"
  /\ pc' = "page"
  /\ op' = "get_zones_info"
  /\ exc' = "ok"
  /\ ret' = <<>>
  /\ zones' = <<>>
  /\ page_num' = FirstPage
  /\ idx' = 0
  /\ before' = Fields
  /\ log' = <<>>
  /\ NoRetryLoop
  /\ UNCHANGED <<clientVars, arg, portal, view>>

\* One pass of the page loop: the request for page_num and what follows
\* from its data; after the loop the per-zone loop starts.  The log keeps
\* what _post_zone_list_data raised or returned (exc, value) and what its
\* _request_json had raised (error).
Page ==
  /\ pc = "page"
  /\ \E result \in ZoneListAnswers(page_num) :
     \E r \in {PostZoneListData(result)} :
       LET step == PageStep(page_num, r.value)
           items == IF r.exc = "ok" /\ step = "extend" THEN r.value.items ELSE <<>>
       IN /\ log' = Append(log, [kind |-> "zonelist", http |-> 1, page |-> page_num,
                                  locationId |-> locationId, exc |-> r.exc,
                                  value |-> r.value,
                                  error |-> RequestJson(result).exc])
          /\ zones' = zones \o items
          /\ IF r.exc # "ok"
             THEN /\ pc' = "done"
                  /\ exc' = r.exc
                  /\ UNCHANGED <<page_num, idx>>
             ELSE IF step = "NoZonesFoundError"
             THEN /\ pc' = "done"
                  /\ exc' = step
                  /\ UNCHANGED <<page_num, idx>>
             ELSE IF step = "extend" /\ InPageRange(page_num + 1)
             THEN /\ pc' = "page"
                  /\ page_num' = page_num + 1
                  /\ UNCHANGED <<exc, idx>>
             ELSE /\ pc' = IF zones' = <<>> THEN "done" ELSE "zone"
                  /\ idx' = 1
                  /\ UNCHANGED <<exc, page_num>>
  /\ UNCHANGED <<clientVars, op, ret, authVars, arg, before, portal, view>>

\* A variant in which the three fetches of a zone are always made.
FetchesMadeAll(nameCall, checkCall, weatherCall) == <<nameCall, checkCall, weatherCall>>

\* The fetches one pass of the per-zone loop makes, in order: the first
\* that raises is the last.
FetchesMade(nameCall, checkCall, weatherCall) ==
  IF nameCall.exc # "ok" THEN <<nameCall>>
  ELSE IF checkCall.exc # "ok" THEN <<nameCall, checkCall>>
  ELSE <<nameCall, checkCall, weatherCall>>

\* One pass of the per-zone loop: the name, the session check and the
\* weather of zones[idx], merged into zones[idx]; after the last pass the
\* return of zones.  An exception of a fetch ends the call; the entry has
\* its Name by then when the name lookup returned.
\* (the outcome of each fetch is bound by \E over a set of one)
ZoneDetails ==
  /\ pc = "zone"
  /\ \E nameResult \in DetailAnswers, checkResult \in SessionAnswers,
        weatherResult \in WeatherAnswers :
     \E n \in {GetNameForDeviceId(nameCache, zones[idx].DeviceID, nameResult)},
        more_data \in {RequestJson(checkResult)},
        weather \in {OutdoorWeatherInfo(weatherResult)} :
       LET zone == zones[idx]
           device_id == zone.DeviceID
           nameCall == [kind |-> "name", http |-> n.http, device |-> device_id,
                        exc |-> n.exc, value |-> n.name]
           checkCall == [kind |-> "session", http |-> 1, device |-> device_id,
                         exc |-> more_data.exc, value |-> more_data.value]
           weatherCall == [kind |-> "weather", http |-> 1, device |-> device_id,
                           exc |-> weather.exc, value |-> weather.value]
           raised == IF n.exc # "ok" THEN n.exc
                     ELSE IF more_data.exc # "ok" THEN more_data.exc
                     ELSE weather.exc
       IN /\ nameCache' = n.cache
          /\ log' = log \o FetchesMade(nameCall, checkCall, weatherCall)
          /\ IF raised # "ok"
             THEN /\ pc' = "done"
                  /\ exc' = raised
                  /\ zones' = IF n.exc # "ok" THEN zones
                              ELSE [zones EXCEPT ![idx] =
                                      SetItem(zone, "Name", n.name)]
                  /\ UNCHANGED <<idx, ret>>
             ELSE /\ zones' = [zones EXCEPT ![idx] =
                                 ZoneRecord(zone, n.name, more_data.value.fields,
                                            weather.value)]
                  /\ IF idx < Len(zones)
                     THEN /\ idx' = idx + 1
                          /\ UNCHANGED <<pc, ret>>
                     ELSE /\ pc' = "done"
                          /\ ret' = zones'
                          /\ UNCHANGED idx
                  /\ UNCHANGED exc
  /\ UNCHANGED <<session, locationId, op, authVars, arg, before, page_num, portal, view>>

\* A direct call of _get_name_for_device_id(device_id)
LookupName ==
  /\ pc = "idle"
  /\ \E device_id \in DeviceIds, result \in DetailAnswers :
     \E n \in {GetNameForDeviceId(nameCache, device_id, result)} :
       /\ nameCache' = n.cache
       /\ exc' = n.exc
       /\ ret' = n.name
       /\ log' = <<[kind |-> "name", http |-> n.http, device |-> device_id,
                    exc |-> n.exc, value |-> n.name]>>
  /\ op' = "_get_name_for_device_id"
  /\ pc' = "done"
  /\ before' = Fields
  /\ NoRetryLoop
  /\ UNCHANGED <<session, locationId, arg, zonesVars, portal, view>>

\* The most session objects a client makes while its zones are fetched
MaxZoneSessions == 3

\* A call of authenticate() on the client whose zones are fetched, while
\* there are session objects left to make
AuthenticateAgain ==
  /\ session < MaxZoneSessions
  /\ Authenticate

\* One pass of the loop of that call, the portal answering the login POST
\* as it does after the construction; a call that has made the last session
\* object is followed no further.
AttemptAgain ==
  /\ session < MaxZoneSessions
  /\ AttemptOf(ReloginResponses)

\* The thermostats and the account change at the portal, between two calls
\* of the client or while authenticate() waits in time.sleep.
PortalChanges ==
  /\ pc \in {"idle", "sleep"}
  /\ portal' \in PortalStates \ {portal}
  /\ UNCHANGED <<clientVars, pc, op, exc, ret, authVars, arg, before, zonesVars, log, view>>

\* A constructed client with an empty name cache, and any portal
InitZones ==
  /\ session = 1
  /\ locationId = Some(12345)
  /\ nameCache = <<>>
  /\ pc = "idle"
  /\ op = "none"
  /\ exc = "ok"
  /\ ret = <<>>
  /\ i = 0
  /\ attempts = 0
  /\ sleepCount = 0
  /\ slept = <<>>
  /\ lastLogin = "none"
  /\ arg = <<>>
  /\ before = NoCall
  /\ zones = <<>>
  /\ page_num = 0
  /\ idx = 0
  /\ log = <<>>
  /\ portal \in PortalStates
  /\ view = NoView

NextZones ==
  \/ GetZonesInfo
  \/ Page
  \/ ZoneDetails
  \/ LookupName
  \/ AuthenticateAgain
  \/ AttemptAgain
  \/ Sleep
  \/ DeAuthenticate
  \/ PortalChanges
  \/ Return

SpecZones == InitZones /\ [][NextZones]_vars

(***************************************************************************)
(* Properties of get_zones_info and of the name lookup                     *)
(***************************************************************************)

\* A page without data: None, an empty list or an empty dict
NoData(v) ==
  \/ v.kind = "null"
  \/ v.kind = "list" /\ Len(v.items) = 0
  \/ v.kind = "dict" /\ DOMAIN v.fields = {}

\* The zone-list requests of the call, in the order sent, and the requests
\* for the devices
Requests(kinds) == SelectSeq(log, LAMBDA e : e.kind \in kinds)
ZoneListRequests == Requests({"zonelist"})
DeviceRequests == Requests({"name", "session", "weather"})

InZonesCall == op = "get_zones_info"
ZonesCallOver == InZonesCall /\ pc = "done"

\* The entries of the pages that gave data, in page order
RECURSIVE EntriesOf(_)
EntriesOf(requests) ==
  IF requests = <<>> THEN <<>>
  ELSE (IF requests[1].exc = "ok" /\ ~NoData(requests[1].value)
        THEN requests[1].value.items ELSE <<>>) \o EntriesOf(Tail(requests))

\* C5: when page 1 returns no data, get_zones_info() raises
\* NoZonesFoundError and the request for page 1 is the only request it sent:
\* no other page, no name, session-check or weather fetch.
C5_NoZonesOnEmptyFirstPage ==
  (/\ ZonesCallOver
   /\ log # <<>>
   /\ log[1].kind = "zonelist"
   /\ log[1].exc = "ok"
   /\ NoData(log[1].value))
  => /\ exc = "NoZonesFoundError"
     /\ Len(log) = 1
     /\ log[1].page = 1
     /\ ret = <<>>

\* C5 witness: the call is over, page 1 was an empty list.
C5_Witness ==
  /\ ZonesCallOver
  /\ Len(log) = 1
  /\ log[1].kind = "zonelist"
  /\ log[1].exc = "ok"
  /\ log[1].value.kind = "list"
  /\ NoData(log[1].value)
  /\ exc = "NoZonesFoundError"

\* C6: the zone-list requests are for the pages 1, 2, 3, ... in this order,
\* none for a page outside 1..5 and none after a page without data; the call
\* goes on to the devices only after a page without data or after page 5;
\* and a call that returns, returns one record per entry of the pages with
\* data, in page order and in entry order within the page.
C6_PagesInOrder ==
  InZonesCall =>
    LET pages == ZoneListRequests
        entries == EntriesOf(pages)
    IN /\ \A j \in 1..Len(pages) : pages[j].page = j /\ j <= 5
       /\ \A j \in 1..(Len(pages) - 1) :
            pages[j].exc = "ok" /\ ~NoData(pages[j].value)
       /\ SubSeq(log, 1, Len(pages)) = pages
       /\ (pc = "zone" \/ (pc = "done" /\ exc = "ok")) =>
            /\ pages # <<>>
            /\ \/ Len(pages) = 5
               \/ NoData(pages[Len(pages)].value)
       /\ (pc = "done" /\ exc = "ok") =>
            /\ Len(ret) = Len(entries)
            /\ \A k \in 1..Len(ret) :
                 /\ ret[k].MacID = entries[k].MacID
                 /\ ret[k].DeviceID = entries[k].DeviceID

\* C6 witness: a call returned the eight zones of five pages of a portal
\* that has a sixth.
C6_Witness ==
  /\ ZonesCallOver
  /\ exc = "ok"
  /\ portal.pages = 6
  /\ Len(ZoneListRequests) = 5
  /\ Len(ret) = 8
  /\ ret[3].MacID = 21

\* The value of field f after the overlay of the three sources
Overlaid(entry, name, blob, weather, f) ==
  IF f \in DOMAIN weather THEN weather[f]
  ELSE IF f \in DOMAIN blob THEN blob[f]
  ELSE IF f = "Name" THEN name
  ELSE entry[f]

\* C7: each record get_zones_info() returns has the fields of its zone-list
\* entry, Name, the fields of the session-check blob and the two weather
\* fields; each field has the value of the latest of these sources that has
\* the field, Name being the name the lookup returned.
C7_RecordIsOverlay ==
  (ZonesCallOver /\ exc = "ok") =>
    LET entries == EntriesOf(ZoneListRequests)
        fetches == DeviceRequests
    IN /\ Len(fetches) = 3 * Len(ret)
       /\ \A k \in 1..Len(ret) :
            LET name == fetches[3 * k - 2]
                blob == fetches[3 * k - 1]
                weather == fetches[3 * k]
            IN /\ name.kind = "name" /\ name.device = entries[k].DeviceID
               /\ blob.kind = "session" /\ blob.device = entries[k].DeviceID
               /\ weather.kind = "weather" /\ weather.device = entries[k].DeviceID
               /\ DOMAIN ret[k] =
                    DOMAIN entries[k] \cup {"Name"} \cup DOMAIN blob.value.fields
                      \cup {"OutdoorTemperature", "OutdoorHumidity"}
               /\ DOMAIN weather.value = {"OutdoorTemperature", "OutdoorHumidity"}
               /\ \A f \in DOMAIN ret[k] :
                    ret[k][f] = Overlaid(entries[k], name.value, blob.value.fields,
                                         weather.value, f)

\* C7 witness: a returned record whose entry had a Name and a DispTemp of
\* its own, the blob both of them and an OutdoorTemperature, and the page no
\* outdoor temperature.
C7_Witness ==
  /\ ZonesCallOver
  /\ exc = "ok"
  /\ Len(ret) >= 2
  /\ "Name" \in DOMAIN portal.blob
  /\ ret[1].Name = <<"b", "l", "o", "b">>
  /\ ret[1].DispTemp = JsonNumber(60)
  /\ ret[1].MacID = 11
  /\ ret[1].OutdoorTemperature = None
  /\ ret[1].OutdoorHumidity = Some(51)

\* The lookups of a step: the name requests it added to the log
NewLookups ==
  SelectSeq(IF Len(log') >= Len(log) THEN SubSeq(log', Len(log) + 1, Len(log')) ELSE <<>>,
            LAMBDA e : e.kind = "name")

\* C8: a name a lookup returned for a DeviceID stays the name of that
\* DeviceID; a lookup for a DeviceID with a name returns that name and sends
\* no HTTP request, whatever the client did in between; a lookup for a
\* DeviceID without one sends exactly one request.
C8_NameCache ==
  [][ /\ \A d \in DOMAIN nameCache :
           d \in DOMAIN nameCache' /\ nameCache'[d] = nameCache[d]
      /\ \A n \in 1..Len(NewLookups) :
           LET e == NewLookups[n]
           IN /\ e.device \in DOMAIN nameCache =>
                   e.http = 0 /\ e.exc = "ok" /\ e.value = nameCache[e.device]
              /\ e.device \notin DOMAIN nameCache => e.http = 1
              /\ e.exc = "ok" =>
                   e.device \in DOMAIN nameCache' /\ nameCache'[e.device] = e.value
    ]_vars

\* C8 witness: after a new login, a direct lookup of a device that has a
\* name returned it without a request.
C8_Witness ==
  /\ pc = "done"
  /\ op = "_get_name_for_device_id"
  /\ session = 2
  /\ log[1].http = 0
  /\ log[1].device \in DOMAIN nameCache
  /\ ret = nameCache[log[1].device]
  /\ ret = <<"D", "O", "W", "N">>

(***************************************************************************)
(* Direct calls of _get_outdoor_weather_info_for_zone and _request_json    *)
(***************************************************************************)

\* A constructed client about to make one call with the input a
AboutToCall(a) ==
  /\ arg = a
  /\ session = 1
  /\ locationId = Some(12345)
  /\ nameCache = <<>>
  /\ pc = "call"
  /\ op = "none"
  /\ exc = "ok"
  /\ ret = <<>>
  /\ i = 0
  /\ attempts = 0
  /\ sleepCount = 0
  /\ slept = <<>>
  /\ lastLogin = "none"
  /\ before = NoCall
  /\ zones = <<>>
  /\ page_num = 0
  /\ idx = 0
  /\ log = <<>>
  /\ portal = NoPortal
  /\ view = NoView

\* The texts between a marker and the next ")" on a detail page
ReadingTexts ==
  { <<" ", "7", "4", ".", "5">>,
    <<"-", "3", ".", "7">>,
    <<" ", "4", "7", " ">>,
    <<"a", "b", "c">>,
    <<>>,
    <<"1", ".", "2", ".", "3">>,
    <<"2", "e", "1">>,
    <<"-", ".", "5">>,
    <<"+", "8", ".">>,
    <<"-", "0", ".", "9", "E", "+", "1">>,
    <<"2", "5", "e", "-", "1">>,
    <<"\r", "\n", "7", "4", "\r", "\n">>,
    <<"1", "_", "0">>,
    <<"e", "5">>,
    <<"0", ".", "9", "9", "9", "9", "9", "9", "9", "9", "9", "9",
      "9", "9", "9", "9", "9", "9", "9", "9", "9", "9">>,
    <<"1", "e", "4", "0", "0">>,
    <<"-", "I", "n", "f">>,
    <<"n", "a", "n">> }

\* What a detail page has for one outdoor value: nothing, or a reading
Readings == {None} \cup {Some(t) : t \in ReadingTexts}

\* The line of the page's script for a reading
ScriptLine(mark, reading) ==
  IF reading = None THEN <<>>
  ELSE <<"s", "e", "t", "(">> \o mark \o reading[1] \o <<")", ";", "\n">>

\* The detail pages: a status, the two readings in either order
DetailPages ==
  { [status |-> st, temp |-> t, hum |-> h,
     text |-> NameHeader(<<"U", "P">>)
                \o (IF tempFirst
                    THEN ScriptLine(OutdoorTempMark, t) \o ScriptLine(OutdoorHumidityMark, h)
                    ELSE ScriptLine(OutdoorHumidityMark, h) \o ScriptLine(OutdoorTempMark, t))] :
      st \in {HttpOk, 204, 404, 500}, t \in Readings, h \in Readings, tempFirst \in BOOLEAN }

InitWeather == \E a \in DetailPages : AboutToCall(a)

\* self._get_outdoor_weather_info_for_zone(device_id) with the portal
\* answering arg
CallOutdoorWeatherInfo ==
  /\ pc = "call"
  /\ \E w \in {OutdoorWeatherInfo(arg)} :
       /\ exc' = w.exc
       /\ ret' = w.value
  /\ pc' = "returned"
  /\ op' = "_get_outdoor_weather_info_for_zone"
  /\ log' = <<[kind |-> "weather", http |-> 1]>>
  /\ UNCHANGED <<clientVars, authVars, arg, before, zonesVars, portal, view>>

NextWeather == CallOutdoorWeatherInfo

SpecWeather == InitWeather /\ [][NextWeather]_vars

\* The bodies of an answer to a JSON request: the text, what it decodes to,
\* and whether the text has the unauthorized marker
JsonBodies ==
  { [text |-> <<"{", ".", "}">>, json |-> JsonDict([success |-> TRUE]), marked |-> FALSE],
    [text |-> <<"[", ".", "]">>, json |-> JsonList(PageEntries(1)), marked |-> FALSE],
    [text |-> <<"[", "]">>, json |-> JsonList(<<>>), marked |-> FALSE],
    [text |-> <<"{", "}">>, json |-> JsonDict(<<>>), marked |-> FALSE],
    [text |-> <<"0">>, json |-> JsonNumber(0), marked |-> FALSE],
    [text |-> <<"f", "a", "l", "s", "e">>, json |-> JsonBool(FALSE), marked |-> FALSE],
    [text |-> <<"n", "u", "l", "l">>, json |-> JsonNull, marked |-> FALSE],
    [text |-> <<>>, json |-> JsonError, marked |-> FALSE],
    [text |-> <<"<", "p", ">">>, json |-> JsonError, marked |-> FALSE],
    [text |-> UnauthorizedMark, json |-> JsonError, marked |-> TRUE],
    [text |-> <<"<", "p", ">">> \o UnauthorizedMark \o <<".">>, json |-> JsonError,
     marked |-> TRUE],
    [text |-> <<"{", "\"", "M", "\"", ":", "\"">> \o UnauthorizedMark \o <<"\"", "}">>,
     json |-> JsonDict([M |-> UnauthorizedMark]), marked |-> TRUE] }

JsonStatuses == {HttpOk, 201, HttpUnauthorized, 403, 404, 500}

JsonAnswers ==
  { [status |-> st, text |-> b.text, json |-> b.json, marked |-> b.marked] :
      st \in JsonStatuses, b \in JsonBodies }

InitJson == \E a \in JsonAnswers : AboutToCall(a)

\* self._request_json(method, url) with the portal answering arg
CallRequestJson ==
  /\ pc = "call"
  /\ \E r \in {RequestJson(arg)} :
       /\ exc' = r.exc
       /\ ret' = r.value
  /\ pc' = "returned"
  /\ op' = "_request_json"
  /\ log' = <<[kind |-> "json", http |-> 1]>>
  /\ UNCHANGED <<clientVars, authVars, arg, before, zonesVars, portal, view>>

NextJson == CallRequestJson

SpecJson == InitJson /\ [][NextJson]_vars

(***************************************************************************)
(* Properties of the weather extraction and of the JSON request            *)
(***************************************************************************)

\* The integer a reading stands for: the number cut off towards zero, None
\* for no reading and for a text that is no number. The number of a text
\* is the float Python reads from it, a double: twenty nines after the point
\* are 1.0, and 1e400 is the infinity, which like "-Inf" and "nan" is no
\* number to cut off.
ReadingValue(reading) ==
  IF reading = None THEN None
  ELSE IF reading[1] = <<" ", "7", "4", ".", "5">> THEN Some(74)
  ELSE IF reading[1] = <<"-", "3", ".", "7">> THEN Some(0 - 3)
  ELSE IF reading[1] = <<" ", "4", "7", " ">> THEN Some(47)
  ELSE IF reading[1] = <<"2", "e", "1">> THEN Some(20)
  ELSE IF reading[1] = <<"-", ".", "5">> THEN Some(0)
  ELSE IF reading[1] = <<"+", "8", ".">> THEN Some(8)
  ELSE IF reading[1] = <<"-", "0", ".", "9", "E", "+", "1">> THEN Some(0 - 9)
  ELSE IF reading[1] = <<"2", "5", "e", "-", "1">> THEN Some(2)
  ELSE IF reading[1] = <<"\r", "\n", "7", "4", "\r", "\n">> THEN Some(74)
  ELSE IF reading[1] = <<"1", "_", "0">> THEN Some(10)
  ELSE IF reading[1] = <<"0", ".">> \o [k \in 1..20 |-> "9"] THEN Some(1)
  ELSE None

WeatherReturned == pc = "returned" /\ op = "_get_outdoor_weather_info_for_zone"

\* C9: for a detail page with a success status the extraction raises
\* nothing; OutdoorTemperature is the number after the temperature marker
\* (as the float Python reads there) cut to an integer, None without the
\* marker or without a number there;
\* OutdoorHumidity likewise for the humidity marker; each field follows
\* from its own reading alone, whatever the other one is.
C9_WeatherExtraction ==
  (WeatherReturned /\ arg.status \in {200, 204}) =>
    /\ exc = "ok"
    /\ DOMAIN ret = {"OutdoorTemperature", "OutdoorHumidity"}
    /\ ret.OutdoorTemperature = ReadingValue(arg.temp)
    /\ ret.OutdoorHumidity = ReadingValue(arg.hum)

\* C9 witness: a page with a negative fractional temperature and no
\* humidity gave -3 and None.
C9_Witness ==
  /\ WeatherReturned
  /\ arg.status = 200
  /\ arg.temp = Some(<<"-", "3", ".", "7">>)
  /\ arg.hum = None
  /\ ret.OutdoorTemperature = Some(0 - 3)
  /\ ret.OutdoorHumidity = None

\* Reached: twenty nines after the point gave 1, and 1e400 gave None
C9_DoubleReached ==
  /\ WeatherReturned
  /\ arg.status = 200
  /\ arg.temp = Some(<<"0", ".">> \o [k \in 1..20 |-> "9"])
  /\ arg.hum = Some(<<"1", "e", "4", "0", "0">>)
  /\ ret.OutdoorTemperature = Some(1)
  /\ ret.OutdoorHumidity = None

JsonReturned == pc = "returned" /\ op = "_request_json"

\* The classification of an answer that is not returned
Classified ==
  IF arg.marked \/ arg.status = 401
  THEN exc = "UnauthorizedError"
  ELSE exc = "UnexpectedError"

\* C10 as stated: the decoded body is returned exactly when the status is
\* 200 and the body decodes as JSON; every other answer raises
\* UnauthorizedError for a marked body or status 401 and UnexpectedError
\* otherwise.
C10_ReturnsWhateverDecodes ==
  JsonReturned =>
    IF arg.status = 200 /\ arg.json.kind # "error"
    THEN exc = "ok" /\ ret = arg.json
    ELSE Classified

\* C10, amended: the decoded body is returned exactly when the status is
\* 200 and the body decodes as JSON to a value other than null; every other
\* answer, a null body included, raises UnauthorizedError for a marked body
\* or status 401 and UnexpectedError otherwise.
C10_ReturnsDecodedNonNull ==
  JsonReturned =>
    IF arg.status = 200 /\ arg.json.kind \notin {"error", "null"}
    THEN exc = "ok" /\ ret = arg.json
    ELSE Classified

\* C10 witness: status 200 with the body null raised UnexpectedError.
C10_Witness ==
  /\ JsonReturned
  /\ arg.status = 200
  /\ arg.json.kind = "null"
  /\ exc = "UnexpectedError"

(***************************************************************************)
(* PyHTCC.submit_raw_control_changes                                       *)
(***************************************************************************)

\* The keys of the dict data
TemplateKeys ==
  {"CoolNextPeriod", "CoolSetpoint", "DeviceID", "FanMode", "HeatNextPeriod",
   "HeatSetpoint", "StatusCool", "StatusHeat", "SystemSwitch"}

\* A variant of the template without the device.
TemplateAllNone(device_id) == [k \in TemplateKeys |-> None]

\* data before the loop: None for every key but DeviceID
Template(device_id) ==
  [k \in TemplateKeys |-> IF k = "DeviceID" THEN Some(device_id) ELSE None]

\* A variant of the loop that passes over a key outside the template.
RECURSIVE OverwriteKnownDefaults(_, _)
OverwriteKnownDefaults(data, items) ==
  IF items = <<>> THEN [exc |-> "ok", data |-> data]
  ELSE IF items[1][1] \notin DOMAIN data
       THEN OverwriteKnownDefaults(data, Tail(items))
       ELSE OverwriteKnownDefaults([data EXCEPT ![items[1][1]] = items[1][2]],
                                   Tail(items))

\* The loop over other_data.items(), the dict given as its <<key, value>>
\* pairs in order: the first key outside data raises KeyError.
RECURSIVE OverwriteDefaults(_, _)
OverwriteDefaults(data, items) ==
  IF items = <<>> THEN [exc |-> "ok", data |-> data]
  ELSE IF items[1][1] \notin DOMAIN data
       THEN [exc |-> "KeyError", data |-> data]
       ELSE OverwriteDefaults([data EXCEPT ![items[1][1]] = items[1][2]],
                              Tail(items))

\* Python: v != 1 is false for the int 1 and for True
EqualsOne(v) ==
  \/ v.kind = "number" /\ v.value = 1
  \/ v.kind = "bool" /\ v.value

\* if json_data["success"] != 1: raise ValueError; the subscript raises
\* TypeError for a value that is no dict and KeyError for a dict without
\* the key
SuccessCheck(json_data) ==
  IF json_data.kind # "dict" THEN "TypeError"
  ELSE IF "success" \notin DOMAIN json_data.fields THEN "KeyError"
  ELSE IF EqualsOne(json_data.fields.success) THEN "ok"
  ELSE "ValueError"

\* A variant that sets DeviceID after the loop, whatever the caller passed.
SubmitRawControlChangesForDevice(device_id, other_data, result) ==
  LET filled == OverwriteDefaults(Template(device_id), other_data)
      json_data == RequestJson(result)
      request == [kind |-> "submit", http |-> 1,
                  body |-> [filled.data EXCEPT !["DeviceID"] = Some(device_id)]]
  IN IF filled.exc # "ok" THEN [exc |-> filled.exc, sent |-> <<>>]
     ELSE IF json_data.exc # "ok" THEN [exc |-> json_data.exc, sent |-> <<request>>]
     ELSE [exc |-> SuccessCheck(json_data.value), sent |-> <<request>>]

\* submit_raw_control_changes(device_id, other_data), the portal answering
\* the POST, if one is sent, with result: the exception raised and the
\* bodies posted.
SubmitRawControlChanges(device_id, other_data, result) ==
  LET filled == OverwriteDefaults(Template(device_id), other_data)
      json_data == RequestJson(result)
      request == [kind |-> "submit", http |-> 1, body |-> filled.data]
  IN IF filled.exc # "ok" THEN [exc |-> filled.exc, sent |-> <<>>]
     ELSE IF json_data.exc # "ok" THEN [exc |-> json_data.exc, sent |-> <<request>>]
     ELSE [exc |-> SuccessCheck(json_data.value), sent |-> <<request>>]

\* The dicts a caller passes as other_data
ControlChanges ==
  { <<>>,
    << <<"CoolNextPeriod", Some(23)>>, <<"SystemSwitch", Some(5)>> >>,
    << <<"HeatSetpoint", None>> >>,
    << <<"DeviceID", Some(7)>>, <<"FanMode", Some(1)>> >>,
    << <<"KewlDown", Some(1)>> >>,
    << <<"FanMode", Some(1)>>, <<"KewlDown", Some(1)>> >>,
    << <<"KewlDown", Some(1)>>, <<"FanMode", Some(1)>> >>,
    << <<"success", Some(1)>>, <<"deviceid", Some(1)>> >> }

\* The bodies of an answer to the POST
SubmitBodies ==
  { [text |-> <<"{", "1", "}">>, json |-> JsonDict([success |-> JsonNumber(1)])],
    [text |-> <<"{", "0", "}">>, json |-> JsonDict([success |-> JsonNumber(0)])],
    [text |-> <<"{", "2", "}">>, json |-> JsonDict([success |-> JsonNumber(2)])],
    [text |-> <<"{", "t", "}">>, json |-> JsonDict([success |-> JsonBool(TRUE)])],
    [text |-> <<"{", "f", "}">>, json |-> JsonDict([success |-> JsonBool(FALSE)])],
    [text |-> <<"{", "n", "}">>, json |-> JsonDict([success |-> JsonNull])],
    [text |-> <<"{", "e", "}">>, json |-> JsonDict([error |-> JsonNumber(1)])],
    [text |-> <<"{", "}">>, json |-> JsonDict(<<>>)],
    [text |-> <<"[", "1", "]">>, json |-> JsonList(<<JsonNumber(1)>>)],
    [text |-> <<"1">>, json |-> JsonNumber(1)],
    [text |-> <<"n", "u", "l", "l">>, json |-> JsonNull],
    [text |-> <<"<", "p", ">">>, json |-> JsonError],
    [text |-> UnauthorizedMark, json |-> JsonError] }

SubmitAnswers ==
  { [status |-> st, text |-> b.text, json |-> b.json] :
      st \in {HttpOk, HttpUnauthorized, 500}, b \in SubmitBodies }

SubmitCalls ==
  [device_id : {1, 1999}, other_data : ControlChanges, result : SubmitAnswers]

InitSubmit == \E a \in SubmitCalls : AboutToCall(a)

\* self.submit_raw_control_changes(arg.device_id, arg.other_data)
CallSubmitRawControlChanges ==
  /\ pc = "call"
  /\ \E r \in {SubmitRawControlChanges(arg.device_id, arg.other_data, arg.result)} :
       /\ exc' = r.exc
       /\ log' = r.sent
  /\ pc' = "returned"
  /\ op' = "submit_raw_control_changes"
  /\ UNCHANGED <<clientVars, ret, authVars, arg, before, zonesVars, portal, view>>

NextSubmit == CallSubmitRawControlChanges

SpecSubmit == InitSubmit /\ [][NextSubmit]_vars

(***************************************************************************)
(* Properties of submit_raw_control_changes                                *)
(***************************************************************************)

NineFields ==
  {"CoolNextPeriod", "CoolSetpoint", "DeviceID", "FanMode", "HeatNextPeriod",
   "HeatSetpoint", "StatusCool", "StatusHeat", "SystemSwitch"}

SubmitReturned == pc = "returned" /\ op = "submit_raw_control_changes"

\* The keys the caller supplied, and the value supplied for a key
Supplied == {arg.other_data[n][1] : n \in 1..Len(arg.other_data)}
SuppliedValue(k) ==
  arg.other_data[CHOOSE n \in 1..Len(arg.other_data) : arg.other_data[n][1] = k][2]

\* C11: when updates has a key outside the nine template fields, the call
\* raises KeyError and sends no HTTP request, whatever the other keys are.
C11_UnknownKeyNothingPosted ==
  (SubmitReturned /\ ~(Supplied \subseteq NineFields)) =>
    /\ exc = "KeyError"
    /\ log = <<>>

\* C11 witness: a valid key followed by an unknown one raised KeyError.
C11_Witness ==
  /\ SubmitReturned
  /\ arg.other_data = << <<"FanMode", Some(1)>>, <<"KewlDown", Some(1)>> >>
  /\ arg.result.status = 200
  /\ exc = "KeyError"
  /\ log = <<>>

\* The answer decoded: _request_json returned a value
AnswerDecoded ==
  /\ arg.result.status = 200
  /\ arg.result.json.kind \notin {"error", "null"}

SuccessIsOne ==
  /\ arg.result.json.kind = "dict"
  /\ "success" \in DOMAIN arg.result.json.fields
  /\ \/ arg.result.json.fields.success = [kind |-> "number", value |-> 1]
     \/ arg.result.json.fields.success = [kind |-> "bool", value |-> TRUE]

\* C12 as stated: for accepted updates and a decoded answer the call
\* returns normally exactly when success equals 1, and raises ValueError for
\* every other decoded answer.
C12_ValueErrorUnlessSuccess ==
  (SubmitReturned /\ Supplied \subseteq NineFields /\ AnswerDecoded) =>
    IF SuccessIsOne THEN exc = "ok" ELSE exc = "ValueError"

\* C12, the case that differs: a decoded answer without a success field
\* raised KeyError.
C12_Witness ==
  /\ SubmitReturned
  /\ arg.other_data = <<>>
  /\ AnswerDecoded
  /\ arg.result.json = [kind |-> "dict", fields |-> <<>>]
  /\ exc = "KeyError"

\* C13 as stated: the body posted has exactly the nine keys; a key the
\* caller supplied has the caller's value and every other key is null.
C13_AllOthersNull ==
  (SubmitReturned /\ log # <<>>) =>
    /\ Len(log) = 1
    /\ DOMAIN log[1].body = NineFields
    /\ \A k \in NineFields :
         log[1].body[k] = IF k \in Supplied THEN SuppliedValue(k) ELSE None

\* C13, amended: the body posted has exactly the nine keys; a key the caller
\* supplied has the caller's value; DeviceID, when not supplied, is the
\* device_id argument; every other key not supplied is null.
C13_OthersNullDeviceIdSent ==
  (SubmitReturned /\ log # <<>>) =>
    /\ Len(log) = 1
    /\ DOMAIN log[1].body = NineFields
    /\ \A k \in NineFields :
         log[1].body[k] = IF k \in Supplied THEN SuppliedValue(k)
                          ELSE IF k = "DeviceID" THEN Some(arg.device_id)
                          ELSE None

\* C13 witness: two fields supplied, DeviceID 1999 from the argument.
C13_Witness ==
  /\ SubmitReturned
  /\ arg.device_id = 1999
  /\ arg.other_data = << <<"CoolNextPeriod", Some(23)>>, <<"SystemSwitch", Some(5)>> >>
  /\ Len(log) = 1
  /\ log[1].body.CoolNextPeriod = Some(23)
  /\ log[1].body.SystemSwitch = Some(5)
  /\ log[1].body.DeviceID = Some(1999)
  /\ log[1].body.FanMode = None

(***************************************************************************)
(* get_zones_info as one call, for the methods that call it                *)
(***************************************************************************)

\* The name the portal shows on the detail page of a device
NameOfDevice(device_id) ==
  IF device_id = 1 THEN <<"U", "P">> ELSE <<"D", "O", "W", "N">>

\* The answers of a portal p without trouble to the requests of one
\* get_zones_info(): the zone-list POST per page, the detail page GET per
\* device (for the name, and for the weather), the session-check GET.
HealthyAnswers(p) ==
  [zonelist |->
     [n \in FirstPage..LastPage |->
        IF n <= p.pages
        THEN [status |-> HttpOk, text |-> <<"[", ".", "]">>,
              json |-> JsonList(PageEntries(n))]
        ELSE [status |-> HttpOk, text |-> <<"[", "]">>, json |-> JsonList(<<>>)]],
   name |-> [d \in DeviceIds |->
               [status |-> HttpOk, text |-> NameHeader(NameOfDevice(d)) \o p.weather]],
   session |-> [status |-> HttpOk, text |-> <<"{", ".", "}">>, json |-> JsonDict(p.blob)],
   weather |-> [status |-> HttpOk, text |-> NameHeader(<<"U", "P">>) \o p.weather]]

\* The answers of portal p during one get_zones_info(): without trouble,
\* with the zone list refused, with the session check in trouble
PortalAnswers(p) ==
  { HealthyAnswers(p),
    [HealthyAnswers(p) EXCEPT
       !.zonelist = [n \in FirstPage..LastPage |->
                       [status |-> HttpUnauthorized, text |-> <<>>, json |-> JsonError]]],
    [HealthyAnswers(p) EXCEPT !.session = TroubleAnswer] }

\* The page loop of get_zones_info() from page on: the exception raised,
\* the list zones and the requests sent.
RECURSIVE PageLoop(_, _, _, _)
PageLoop(answers, page, found, sent) ==
  Only({ LET step == PageStep(page, r.value)
         IN IF r.exc # "ok"
            THEN [exc |-> r.exc, zones |-> found, log |-> requests]
            ELSE IF step = "NoZonesFoundError"
            THEN [exc |-> step, zones |-> found, log |-> requests]
            ELSE IF step = "extend" /\ InPageRange(page + 1)
            THEN Only({ PageLoop(answers, page + 1, more, requests) :
                        more \in {found \o r.value.items} })
            ELSE [exc |-> "ok",
                  zones |-> IF step = "extend" THEN found \o r.value.items ELSE found,
                  log |-> requests] :
         r \in {PostZoneListData(answers.zonelist[page])},
         requests \in {Append(sent, [kind |-> "zonelist", http |-> 1, page |-> page])} })

\* The per-zone loop of get_zones_info() from zones[n] on: the exception
\* raised, the list zones (the entry named when a later fetch of it
\* raises), the name cache and the requests sent.
RECURSIVE ZoneLoop(_, _, _, _, _)
ZoneLoop(answers, cache, found, n, sent) ==
  IF n > Len(found)
  THEN [exc |-> "ok", zones |-> found, cache |-> cache, log |-> sent]
  ELSE Only({
         LET zone == found[n]
             device_id == zone.DeviceID
             nameCall == [kind |-> "name", http |-> name.http, device |-> device_id]
             checkCall == [kind |-> "session", http |-> 1, device |-> device_id]
             weatherCall == [kind |-> "weather", http |-> 1, device |-> device_id]
             named == [found EXCEPT ![n] = SetItem(zone, "Name", name.name)]
         IN IF name.exc # "ok"
            THEN [exc |-> name.exc, zones |-> found, cache |-> name.cache,
                  log |-> sent \o <<nameCall>>]
            ELSE IF more_data.exc # "ok"
            THEN [exc |-> more_data.exc, zones |-> named, cache |-> name.cache,
                  log |-> sent \o <<nameCall, checkCall>>]
            ELSE IF weather.exc # "ok"
            THEN [exc |-> weather.exc, zones |-> named, cache |-> name.cache,
                  log |-> sent \o <<nameCall, checkCall, weatherCall>>]
            ELSE Only({ ZoneLoop(answers, name.cache, merged, n + 1, requests) :
                        merged \in {[found EXCEPT ![n] =
                                       ZoneRecord(zone, name.name,
                                                  more_data.value.fields,
                                                  weather.value)]},
                        requests \in {sent \o <<nameCall, checkCall, weatherCall>>} }) :
         name \in {GetNameForDeviceId(cache, found[n].DeviceID,
                                      answers.name[found[n].DeviceID])},
         more_data \in {RequestJson(answers.session)},
         weather \in {OutdoorWeatherInfo(answers.weather)} })

\* get_zones_info() against the answers: the exception raised, the list
\* returned (none when it raises), the name cache afterwards and the
\* requests sent.
FetchZonesInfo(cache, answers) ==
  Only({ IF pages.exc # "ok"
         THEN [exc |-> pages.exc, zones |-> <<>>, cache |-> cache, log |-> pages.log]
         ELSE Only({ IF details.exc # "ok"
                     THEN [details EXCEPT !.zones = <<>>]
                     ELSE details :
                     details \in {ZoneLoop(answers, cache, pages.zones, 1, pages.log)} }) :
         pages \in {PageLoop(answers, FirstPage, <<>>, <<>>)} })

(***************************************************************************)
(* Zone objects: construction, lookup by name and refresh                  *)
(***************************************************************************)

\* The first record of records, from n on, whose key has the value: its
\* index, 0 when there is none; a record without the key raises KeyError.
RECURSIVE FirstWith(_, _, _, _)
FirstWith(records, key, value, n) ==
  IF n > Len(records) THEN [exc |-> "ok", at |-> 0]
  ELSE IF key \notin DOMAIN records[n] THEN [exc |-> "KeyError", at |-> 0]
  ELSE IF records[n][key] = value THEN [exc |-> "ok", at |-> n]
  ELSE FirstWith(records, key, value, n + 1)

\* A variant of the refresh that keeps the last record with the DeviceID.
RECURSIVE LastWith(_, _, _, _)
LastWith(records, key, value, n) ==
  IF n > Len(records) THEN [exc |-> "ok", at |-> 0]
  ELSE IF key \notin DOMAIN records[n] THEN [exc |-> "KeyError", at |-> 0]
  ELSE LET later == LastWith(records, key, value, n + 1)
       IN IF later.exc # "ok" \/ later.at # 0 THEN later
          ELSE IF records[n][key] = value THEN [exc |-> "ok", at |-> n]
          ELSE later

RefreshKeepingLast(zone, fetched) ==
  LET match == LastWith(fetched.zones, "DeviceID", zone.device_id, 1)
  IN IF fetched.exc # "ok" THEN [exc |-> fetched.exc, zone |-> zone]
     ELSE IF match.exc # "ok" THEN [exc |-> match.exc, zone |-> zone]
     ELSE IF match.at = 0 THEN [exc |-> "ZoneNotFoundError", zone |-> zone]
     ELSE [exc |-> "ok", zone |-> [zone EXCEPT !.zone_info = fetched.zones[match.at]]]

\* Zone.refresh_zone_info() of the object zone, fetched being the outcome
\* of its get_zones_info(): the exception raised and the object afterwards.
Refresh(zone, fetched) ==
  LET match == FirstWith(fetched.zones, "DeviceID", zone.device_id, 1)
  IN IF fetched.exc # "ok" THEN [exc |-> fetched.exc, zone |-> zone]
     ELSE IF match.exc # "ok" THEN [exc |-> match.exc, zone |-> zone]
     ELSE IF match.at = 0 THEN [exc |-> "ZoneNotFoundError", zone |-> zone]
     ELSE [exc |-> "ok", zone |-> [zone EXCEPT !.zone_info = fetched.zones[match.at]]]

\* A variant of the lookup by name that fails as a refresh does.
ZoneByNameOrZoneNotFound(name, fetched) ==
  LET match == FirstWith(fetched.zones, "Name", name, 1)
  IN IF fetched.exc # "ok" THEN [exc |-> fetched.exc, zone |-> NoView]
     ELSE IF match.exc # "ok" THEN [exc |-> match.exc, zone |-> NoView]
     ELSE IF match.at = 0 THEN [exc |-> "ZoneNotFoundError", zone |-> NoView]
     ELSE [exc |-> "ok",
           zone |-> [device_id |-> fetched.zones[match.at].DeviceID,
                     zone_info |-> fetched.zones[match.at]]]

\* get_zone_by_name(name), fetched being the outcome of its
\* get_zones_info(): the exception raised and the Zone returned.  The
\* record of a fetched zone is never empty, so Zone.__init__ keeps it.
ZoneByName(name, fetched) ==
  LET match == FirstWith(fetched.zones, "Name", name, 1)
  IN IF fetched.exc # "ok" THEN [exc |-> fetched.exc, zone |-> NoView]
     ELSE IF match.exc # "ok" THEN [exc |-> match.exc, zone |-> NoView]
     ELSE IF match.at = 0 THEN [exc |-> "NameError", zone |-> NoView]
     ELSE [exc |-> "ok",
           zone |-> [device_id |-> fetched.zones[match.at].DeviceID,
                     zone_info |-> fetched.zones[match.at]]]

\* Zone(a, pyhtcc), fetched being the outcome of the get_zones_info() of
\* the refresh it makes for an empty record: the exception raised, the
\* object, and whether it has refreshed.  An int is the device_id and the
\* record starts empty; a dict is the record and its DeviceID the
\* device_id (KeyError without one); with a value of another type no
\* record is set and reading it raises AttributeError.
NewZoneOf(a, fetched) ==
  IF a.type = "int"
  THEN LET r == Refresh([device_id |-> a.device_id, zone_info |-> <<>>], fetched)
       IN [exc |-> r.exc, zone |-> r.zone, refreshed |-> TRUE]
  ELSE IF a.type = "dict"
  THEN IF "DeviceID" \notin DOMAIN a.zone_info
       THEN [exc |-> "KeyError", zone |-> NoView, refreshed |-> FALSE]
       ELSE [exc |-> "ok",
             zone |-> [device_id |-> a.zone_info.DeviceID, zone_info |-> a.zone_info],
             refreshed |-> FALSE]
  ELSE [exc |-> "AttributeError", zone |-> NoView, refreshed |-> FALSE]

\* get_all_zones(), fetched being the outcome of its get_zones_info(): the
\* exception raised and the list of a Zone per fetched record, each over
\* its own record
AllZones(fetched) ==
  LET made == [n \in 1..Len(fetched.zones) |->
                 NewZoneOf([type |-> "dict", zone_info |-> fetched.zones[n]], fetched)]
  IN IF fetched.exc # "ok" THEN [exc |-> fetched.exc, zones |-> <<>>]
     ELSE IF \E n \in DOMAIN made : made[n].exc # "ok"
     THEN [exc |-> made[CHOOSE n \in DOMAIN made :
                          /\ made[n].exc # "ok"
                          /\ \A m \in 1..(n - 1) : made[m].exc = "ok"].exc,
           zones |-> <<>>]
     ELSE [exc |-> "ok", zones |-> [n \in DOMAIN made |-> made[n].zone]]

\* The exception classes that are a ZoneNotFoundError: no class derives
\* from it.
IsZoneNotFoundError(e) == e = "ZoneNotFoundError"

\* The device ids a caller uses: the portal's and one the portal lacks
CallerDeviceIds == DeviceIds \cup {777999}

\* The first arguments a caller gives Zone(): a device id, a dict with a
\* DeviceID, an empty dict, a dict without DeviceID, and a text
CallerZoneArgs ==
  {[type |-> "int", device_id |-> d] : d \in CallerDeviceIds}
  \cup {[type |-> "dict", zone_info |-> [DeviceID |-> d]] : d \in CallerDeviceIds}
  \cup {[type |-> "dict", zone_info |-> <<>>],
        [type |-> "dict", zone_info |-> [Name |-> <<"U", "P">>]],
        [type |-> "str"]}

\* The names a caller asks for
CallerNames == DeviceNames \cup {<<"b", "l", "o", "b">>, <<"X">>}

\* The portals a Zone is used with: up to two pages of zones
ViewPortals == {p \in PortalStates : p.pages <= 2}

\* The common end of a call made through a Zone or for one
ZoneCallEnds(name, fetched, raised) ==
  /\ op' = name
  /\ exc' = raised
  /\ nameCache' = fetched.cache
  /\ zones' = fetched.zones
  /\ log' = fetched.log
  /\ before' = Fields
  /\ pc' = "done"
  /\ NoRetryLoop
  /\ UNCHANGED <<session, locationId, page_num, idx, portal>>

\* client.get_zone_by_name(name); the caller keeps the Zone returned
GetZoneByName ==
  /\ pc = "idle"
  /\ \E name \in CallerNames, answers \in PortalAnswers(portal) :
     \E fetched \in {FetchZonesInfo(nameCache, answers)} :
     \E r \in {ZoneByName(name, fetched)} :
       /\ view' = IF r.exc = "ok" THEN r.zone ELSE view
       /\ ret' = r.zone
       /\ arg' = name
       /\ ZoneCallEnds("get_zone_by_name", fetched, r.exc)

\* Zone(a, client): with a device id the record starts empty and is
\* fetched, a dict is kept as the record without a request; the caller
\* keeps the Zone when the constructor returns
NewZone ==
  /\ pc = "idle"
  /\ \E a \in CallerZoneArgs, answers \in PortalAnswers(portal) :
     \E fetched \in {FetchZonesInfo(nameCache, answers)} :
     \E r \in {NewZoneOf(a, fetched)} :
       /\ view' = IF r.exc = "ok" THEN r.zone ELSE view
       /\ ret' = <<>>
       /\ arg' = a
       /\ ZoneCallEnds("Zone",
                       IF r.refreshed THEN fetched
                       ELSE [cache |-> nameCache, zones |-> <<>>, log |-> <<>>],
                       r.exc)

\* client.get_all_zones(); the caller keeps one of the Zones returned, or
\* none of them
GetAllZones ==
  /\ pc = "idle"
  /\ \E answers \in PortalAnswers(portal) :
     \E fetched \in {FetchZonesInfo(nameCache, answers)} :
     \E r \in {AllZones(fetched)} :
       /\ \E n \in 0..Len(r.zones) : view' = IF n = 0 THEN view ELSE r.zones[n]
       /\ ret' = r.zones
       /\ arg' = <<>>
       /\ ZoneCallEnds("get_all_zones", fetched, r.exc)

\* zone.device_id = device_id, by the caller
SetDeviceId ==
  /\ pc = "idle"
  /\ view # NoView
  /\ \E device_id \in CallerDeviceIds \ {view.device_id} :
       view' = [view EXCEPT !.device_id = device_id]
  /\ UNCHANGED <<clientVars, pc, op, exc, ret, authVars, arg, before, zonesVars, log, portal>>

\* zone.refresh_zone_info()
RefreshZoneInfo ==
  /\ pc = "idle"
  /\ view # NoView
  /\ \E answers \in PortalAnswers(portal) :
     \E fetched \in {FetchZonesInfo(nameCache, answers)} :
     \E r \in {Refresh(view, fetched)} :
       /\ view' = r.zone
       /\ ret' = <<>>
       /\ arg' = <<>>
       /\ ZoneCallEnds("refresh_zone_info", fetched, r.exc)

\* The zones change at the portal, between two calls
ZonesChange ==
  /\ pc = "idle"
  /\ portal' \in ViewPortals \ {portal}
  /\ UNCHANGED <<clientVars, pc, op, exc, ret, authVars, arg, before, zonesVars, log, view>>

\* A constructed client with an empty name cache and no Zone made yet
InitView ==
  /\ session = 1
  /\ locationId = Some(12345)
  /\ nameCache = <<>>
  /\ pc = "idle"
  /\ op = "none"
  /\ exc = "ok"
  /\ ret = <<>>
  /\ i = 0
  /\ attempts = 0
  /\ sleepCount = 0
  /\ slept = <<>>
  /\ lastLogin = "none"
  /\ arg = <<>>
  /\ before = NoCall
  /\ zones = <<>>
  /\ page_num = 0
  /\ idx = 0
  /\ log = <<>>
  /\ portal \in ViewPortals
  /\ view = NoView


(***************************************************************************)
(* Properties of Zone.refresh_zone_info and get_zone_by_name               *)
(***************************************************************************)

\* The positions of the records of a list whose key has the value
Positions(records, key, value) ==
  {n \in 1..Len(records) : key \in DOMAIN records[n] /\ records[n][key] = value}

Lowest(S) == CHOOSE n \in S : \A m \in S : n <= m

\* A step that is a whole call of refresh_zone_info()
RefreshCall == pc = "idle" /\ pc' = "done" /\ op' = "refresh_zone_info"

\* C14: refresh_zone_info() replaces the view's record with the first
\* freshly fetched record whose DeviceID is the view's device_id and keeps
\* the device_id; without such a record it raises ZoneNotFoundError and
\* leaves record and device_id as they were (as does a failed fetch).
C14_RefreshByDeviceId ==
  [][RefreshCall =>
       LET same == Positions(zones', "DeviceID", view.device_id)
       IN IF zones' = <<>>
          THEN exc' \notin {"ok", "ZoneNotFoundError"} /\ view' = view
          ELSE IF same # {}
          THEN /\ exc' = "ok"
               /\ view'.zone_info = zones'[Lowest(same)]
               /\ view'.device_id = view.device_id
          ELSE /\ exc' = "ZoneNotFoundError"
               /\ view' = view]_vars

\* C14 witness: a refresh with two fresh records of the device took the
\* first, which is not the first of the list.
C14_Witness ==
  /\ pc = "done"
  /\ op = "refresh_zone_info"
  /\ exc = "ok"
  /\ Len(zones) = 3
  /\ zones[2].DeviceID = view.device_id
  /\ zones[3].DeviceID = view.device_id
  /\ view.zone_info = zones[2]
  /\ view.zone_info # zones[3]

\* A refresh of a view that was over the later of two records of its
\* device, kept from get_all_zones(), took the first of them.
C14_FromLaterRecordReached ==
  /\ pc = "done"
  /\ op = "refresh_zone_info"
  /\ exc = "ok"
  /\ Len(zones) = 3
  /\ zones[2].DeviceID = view.device_id
  /\ zones[3].DeviceID = view.device_id
  /\ view.zone_info = zones[2]
  /\ zones[2].MacID # zones[3].MacID

\* get_all_zones() returned a Zone per fetched record, each over its own
\* record, and the caller keeps the one over the later of two records of
\* a device.
AllZonesReached ==
  /\ pc = "done"
  /\ op = "get_all_zones"
  /\ exc = "ok"
  /\ Len(ret) = 3
  /\ \A n \in 1..3 : ret[n].zone_info = zones[n] /\ ret[n].device_id = zones[n].DeviceID
  /\ zones[2].DeviceID = zones[3].DeviceID
  /\ view = ret[3]

\* Zone() of a dict kept the dict as the record and sent no request; of a
\* dict without DeviceID it raised KeyError, of a text AttributeError.
ZoneOfDictReached ==
  /\ pc = "done"
  /\ op = "Zone"
  /\ log = <<>>
  /\ \/ /\ exc = "ok"
        /\ arg = [type |-> "dict", zone_info |-> [DeviceID |-> 777999]]
        /\ view = [device_id |-> 777999, zone_info |-> [DeviceID |-> 777999]]
     \/ exc = "KeyError" /\ arg = [type |-> "dict", zone_info |-> <<>>]
     \/ exc = "AttributeError" /\ arg = [type |-> "str"]

\* A refresh of a view whose device the fresh list lacks raised
\* ZoneNotFoundError and kept the record.
C14_NotFoundReached ==
  /\ pc = "done"
  /\ op = "refresh_zone_info"
  /\ exc = "ZoneNotFoundError"
  /\ view.device_id = 777999
  /\ view.zone_info # <<>>
  /\ zones # <<>>

ZoneByNameDone == pc = "done" /\ op = "get_zone_by_name"

\* C15: get_zone_by_name(name) fetches the zones once; it returns a Zone
\* over the first fetched record whose Name is name, with that record's
\* DeviceID; when no fetched record has the Name it raises NameError, which
\* is no ZoneNotFoundError.
C15_ZoneByName ==
  ZoneByNameDone =>
    LET named == Positions(zones, "Name", arg)
    IN /\ Cardinality({n \in 1..Len(log) :
                         log[n].kind = "zonelist" /\ log[n].page = 1}) = 1
       /\ zones # <<>> =>
            IF named # {}
            THEN /\ exc = "ok"
                 /\ ret.zone_info = zones[Lowest(named)]
                 /\ ret.device_id = zones[Lowest(named)].DeviceID
                 /\ view = ret
            ELSE /\ exc = "NameError"
                 /\ ~IsZoneNotFoundError(exc)

\* C15 witness: two fetched records have the name asked for and the Zone is
\* over the first of them, the second of the list.
C15_Witness ==
  /\ ZoneByNameDone
  /\ exc = "ok"
  /\ arg = <<"U", "P">>
  /\ Len(zones) = 3
  /\ zones[2].Name = arg /\ zones[3].Name = arg
  /\ ret.zone_info = zones[2]
  /\ ret.device_id = 1

\* A lookup of a name no fetched record has raised NameError.
C15_NameErrorReached ==
  /\ ZoneByNameDone
  /\ exc = "NameError"
  /\ zones # <<>>

(***************************************************************************)
(* Zone._coerce_temp_end_to_setpoint                                       *)
(***************************************************************************)

\* A variant of round() that drops the fraction.
RoundDown(num, den) == num \div den

\* Python round(num / den) for num >= 0 and den > 0: the nearest integer,
\* the even one of two equally near
Round(num, den) ==
  LET q == num \div den
      r == num % den
  IN IF 2 * r < den THEN q
     ELSE IF 2 * r > den THEN q + 1
     ELSE IF q % 2 = 0 THEN q ELSE q + 1

\* datetime.time values; datetime.timedelta values, normalised by Python to
\* days of either sign, 0 <= seconds < 86400 and 0 <= microseconds <
\* 1000000; datetime.datetime values, the date given by its ordinal
\* (date.toordinal(): 1 is 0001-01-01); None; and values of other types
TimeOfDay(h, m, s, us) ==
  [type |-> "time", hour |-> h, minute |-> m, second |-> s, microsecond |-> us]
TimeDelta(d, s, us) ==
  [type |-> "timedelta", days |-> d, seconds |-> s, microseconds |-> us]
DateTime(day, s, us) ==
  [type |-> "datetime", day |-> day, second |-> s, microsecond |-> us]
NoEnd == [type |-> "NoneType"]

\* datetime.max.toordinal(): 9999-12-31, the last day of a datetime
MaxOrdinal == 3652059

\* now + end of datetime: the microseconds carry into the seconds and the
\* seconds into the days; a day before 0001-01-01 or after 9999-12-31 is
\* OverflowError
DateTimeAfter(now, end) ==
  LET us == now.microsecond + end.microseconds
      s == now.second + end.seconds + us \div 1000000
      day == now.day + end.days + s \div 86400
  IN IF day < 1 \/ day > MaxOrdinal
     THEN [type |-> "OverflowError"]
     ELSE DateTime(day, s % 86400, us % 1000000)

\* (now + end).time(), or the OverflowError of the sum
TimeAfter(now, end) ==
  LET the_end == DateTimeAfter(now, end)
  IN IF the_end.type = "OverflowError" THEN the_end
     ELSE TimeOfDay(the_end.second \div 3600, (the_end.second % 3600) \div 60,
                    the_end.second % 60, the_end.microsecond)

\* _coerce_temp_end_to_setpoint(end), datetime.datetime.now() being now:
\* the exception raised and the value returned.
RECURSIVE CoerceTempEndToSetpoint(_, _)
CoerceTempEndToSetpoint(end, now) ==
  IF end.type = "time"
  THEN [exc |-> "ok", value |-> Some(end.hour * 4 + Round(end.minute, 15))]
  ELSE IF end.type = "timedelta"
  THEN IF end.days > 0
       THEN [exc |-> "ValueError", value |-> None]
       ELSE LET the_end_time == TimeAfter(now, end)
            IN IF the_end_time.type = "OverflowError"
               THEN [exc |-> "OverflowError", value |-> None]
               ELSE CoerceTempEndToSetpoint(the_end_time, now)
  ELSE IF end.type = "NoneType"
  THEN [exc |-> "ok", value |-> None]
  ELSE [exc |-> "ValueError", value |-> None]

\* The values of end a caller passes: every minute of the day at its first
\* and at its last microsecond; durations from the most negative timedelta
\* to two days, among them the two that take 2026-10-29 to the day before
\* 0001-01-01 and to 0001-01-01; None; values of other types
Ends ==
  {TimeOfDay(h, m, f[1], f[2]) :
     h \in 0..23, m \in 0..59, f \in {<<0, 0>>, <<59, 999999>>}}
  \cup {TimeDelta(d, s, us) :
          d \in {-999999999, -739918, -739917, -2, -1, 0, 1, 2},
          s \in {0, 59, 60, 449, 450, 900, 3600, 47700, 82800, 86340, 86399},
          us \in {0, 500000, 999999}}
  \cup {NoEnd, [type |-> "str"], [type |-> "int"], DateTime(739918, 3600, 0)}

\* The values of datetime.datetime.now() at the call: times of 2026-10-29
\* and of 9999-12-31
Nows ==
  {DateTime(day, s, us) :
     day \in {739918, MaxOrdinal},
     s \in {0, 450, 3600, 27000, 53999, 85950, 86399},
     us \in {0, 600000}}

CoerceCalls ==
  {c \in [end : Ends, now : Nows] :
     c.end.type # "timedelta" => c.now = DateTime(739918, 3600, 0)}

InitCoerce == \E a \in CoerceCalls : AboutToCall(a)

\* zone._coerce_temp_end_to_setpoint(arg.end)
CallCoerceTempEndToSetpoint ==
  /\ pc = "call"
  /\ \E r \in {CoerceTempEndToSetpoint(arg.end, arg.now)} :
       /\ exc' = r.exc
       /\ ret' = r.value
  /\ pc' = "returned"
  /\ op' = "_coerce_temp_end_to_setpoint"
  /\ UNCHANGED <<clientVars, authVars, arg, before, zonesVars, log, portal, view>>

NextCoerce == CallCoerceTempEndToSetpoint

SpecCoerce == InitCoerce /\ [][NextCoerce]_vars

(***************************************************************************)
(* Properties of the time-slot coercion                                    *)
(***************************************************************************)

CoerceReturned == pc = "returned" /\ op = "_coerce_temp_end_to_setpoint"

\* h*4 + round(m/15): the quarter of the hour nearest to the minute (no
\* whole minute is equally near to two quarters)
SlotOf(h, m) ==
  h * 4 + (CHOOSE k \in 0..4 : 2 * (15 * k - m) < 15 /\ 2 * (m - 15 * k) < 15)

\* The time of day, in seconds, a duration after the time of the call, and
\* the days from 0001-01-01 to that instant
SecondAfter(now, end) ==
  now.second + end.seconds + (now.microsecond + end.microseconds) \div 1000000
SecondOfDayAfter(now, end) == SecondAfter(now, end) % 86400
DaysAfter(now, end) == now.day + end.days + SecondAfter(now, end) \div 86400 - 1

\* now + end is a datetime: an instant of the years 1 to 9999
InDateTimeRange(now, end) == DaysAfter(now, end) \in 0..(MaxOrdinal - 1)

\* C16 as stated: a time of day h:m maps to h*4 + round(m/15), an integer
\* in 0..96; every duration of less than a day maps to the slot of the time
\* of day of now + duration, wrapping at midnight; a duration of a day or
\* more raises ValueError; None maps to None; every other type raises
\* ValueError.
C16_EveryShortDurationHasASlot ==
  CoerceReturned =>
    LET end == arg.end
    IN IF end.type = "time"
       THEN /\ exc = "ok"
            /\ ret = <<SlotOf(end.hour, end.minute)>>
            /\ ret[1] \in 0..96
       ELSE IF end.type = "timedelta" /\ end.days < 1
       THEN LET t == SecondOfDayAfter(arg.now, end)
            IN /\ exc = "ok"
               /\ ret = <<SlotOf(t \div 3600, (t \div 60) % 60)>>
       ELSE IF end.type = "timedelta"
       THEN exc = "ValueError"
       ELSE IF end.type = "NoneType"
       THEN exc = "ok" /\ ret = <<>>
       ELSE exc = "ValueError"

\* C16, amended: a time of day h:m maps to h*4 + round(m/15), an integer in
\* 0..96; a duration of less than a day maps to the slot of the time of day
\* of now + duration, wrapping at midnight, when now + duration is an
\* instant of the years 1 to 9999, and raises OverflowError with no value
\* when it is not; a duration of a day or more raises ValueError; None maps
\* to None; every other type raises ValueError.
C16_SlotCoercion ==
  CoerceReturned =>
    LET end == arg.end
    IN IF end.type = "time"
       THEN /\ exc = "ok"
            /\ ret = <<SlotOf(end.hour, end.minute)>>
            /\ ret[1] \in 0..96
       ELSE IF end.type = "timedelta" /\ end.days < 1
       THEN IF InDateTimeRange(arg.now, end)
            THEN LET t == SecondOfDayAfter(arg.now, end)
                 IN /\ exc = "ok"
                    /\ ret = <<SlotOf(t \div 3600, (t \div 60) % 60)>>
            ELSE exc = "OverflowError" /\ ret = <<>>
       ELSE IF end.type = "timedelta"
       THEN exc = "ValueError"
       ELSE IF end.type = "NoneType"
       THEN exc = "ok" /\ ret = <<>>
       ELSE exc = "ValueError"

\* C16 witness: the most negative duration, which is less than a day, has
\* no slot: 2026-10-29 01:00 less 999999999 days is no datetime.
C16_Witness ==
  /\ CoerceReturned
  /\ arg.end = TimeDelta(-999999999, 0, 0)
  /\ arg.now = DateTime(739918, 3600, 0)
  /\ exc = "OverflowError"
  /\ ret = <<>>

\* 23 hours 59 minutes after 01:00 is slot 4, past midnight, and half a
\* second after 23:59:59.6 is slot 0.
C16_MidnightReached ==
  /\ CoerceReturned
  /\ exc = "ok"
  /\ \/ /\ arg.end = TimeDelta(0, 86340, 0)
        /\ arg.now = DateTime(739918, 3600, 0)
        /\ ret = <<4>>
     \/ /\ arg.end = TimeDelta(0, 0, 500000)
        /\ arg.now = DateTime(739918, 86399, 600000)
        /\ ret = <<0>>

\* The first instant of a datetime has a slot and the one before it has
\* none: 739917 days before 2026-10-29 00:00 is 0001-01-01 00:00.
C16_FirstInstantReached ==
  /\ CoerceReturned
  /\ arg.now = DateTime(739918, 0, 0)
  /\ \/ arg.end = TimeDelta(-739917, 0, 0) /\ exc = "ok" /\ ret = <<0>>
     \/ arg.end = TimeDelta(-739918, 86399, 999999) /\ exc = "OverflowError"

\* The last day of a datetime: half a second after 23:59:59.6 of 9999-12-31
\* is no datetime.
C16_LastInstantReached ==
  /\ CoerceReturned
  /\ arg.now = DateTime(MaxOrdinal, 86399, 600000)
  /\ arg.end = TimeDelta(0, 0, 500000)
  /\ exc = "OverflowError"

\* The values of the tests are reached: 01:41 is slot 7 and 23:59 slot 96.
C16_TestValuesReached ==
  /\ CoerceReturned
  /\ arg.end.type = "time"
  /\ \/ arg.end.hour = 1 /\ arg.end.minute = 41 /\ ret = <<7>>
     \/ arg.end.hour = 23 /\ arg.end.minute = 59 /\ ret = <<96>>

(***************************************************************************)
(* Zone: the calls that change the thermostat                              *)
(***************************************************************************)

Mutators ==
  {"set_permananent_cool_setpoint", "set_permanent_cool_setpoint",
   "set_permananent_heat_setpoint", "set_permanent_heat_setpoint",
   "set_temp_heat_setpoint", "set_temp_cool_setpoint", "end_hold",
   "turn_system_off", "turn_fan_on", "turn_fan_auto", "turn_fan_circulate"}

\* The methods that take a temperature, and those that take an end as well
TakesTemp(method) ==
  method \in {"set_permananent_cool_setpoint", "set_permanent_cool_setpoint",
              "set_permananent_heat_setpoint", "set_permanent_heat_setpoint",
              "set_temp_heat_setpoint", "set_temp_cool_setpoint"}
TakesEnd(method) == method \in {"set_temp_heat_setpoint", "set_temp_cool_setpoint"}

\* A variant of the temporary holds that posts without the end when the
\* end cannot be coerced.
ControlChangesOrNoEnd(method, temp, end, now) ==
  LET slot == CoerceTempEndToSetpoint(end, now)
  IN [exc |-> "ok",
      data |-> IF method = "set_temp_heat_setpoint"
               THEN << <<"HeatSetpoint", Some(temp)>>, <<"StatusHeat", Some(1)>>,
                       <<"StatusCool", Some(1)>>, <<"SystemSwitch", Some(1)>>,
                       <<"HeatNextPeriod", slot.value>> >>
               ELSE IF method = "set_temp_cool_setpoint"
               THEN << <<"CoolSetpoint", Some(temp)>>, <<"StatusHeat", Some(1)>>,
                       <<"StatusCool", Some(1)>>, <<"SystemSwitch", Some(3)>>,
                       <<"CoolNextPeriod", slot.value>> >>
               ELSE IF method \in {"set_permanent_cool_setpoint",
                                   "set_permananent_cool_setpoint"}
               THEN << <<"CoolSetpoint", Some(temp)>>, <<"StatusHeat", Some(2)>>,
                       <<"StatusCool", Some(2)>>, <<"SystemSwitch", Some(3)>> >>
               ELSE IF method \in {"set_permanent_heat_setpoint",
                                   "set_permananent_heat_setpoint"}
               THEN << <<"HeatSetpoint", Some(temp)>>, <<"StatusHeat", Some(2)>>,
                       <<"StatusCool", Some(2)>>, <<"SystemSwitch", Some(1)>> >>
               ELSE IF method = "end_hold"
               THEN << <<"StatusHeat", Some(0)>>, <<"StatusCool", Some(0)>> >>
               ELSE IF method = "turn_system_off"
               THEN << <<"SystemSwitch", Some(2)>> >>
               ELSE IF method = "turn_fan_on" THEN << <<"FanMode", Some(1)>> >>
               ELSE IF method = "turn_fan_auto" THEN << <<"FanMode", Some(0)>> >>
               ELSE << <<"FanMode", Some(2)>> >>]

\* The dict a mutating method passes to submit_control_changes, as its
\* items in order, or the exception raised while the dict is built (by the
\* coercion of end); the misspelt methods call the correctly spelt ones.
ControlChangesOf(method, temp, end, now) ==
  LET slot == CoerceTempEndToSetpoint(end, now)
  IN IF method = "set_permananent_cool_setpoint"
     THEN [exc |-> "ok",
           data |-> << <<"CoolSetpoint", Some(temp)>>, <<"StatusHeat", Some(2)>>,
                       <<"StatusCool", Some(2)>>, <<"SystemSwitch", Some(3)>> >>]
     ELSE IF method = "set_permanent_cool_setpoint"
     THEN [exc |-> "ok",
           data |-> << <<"CoolSetpoint", Some(temp)>>, <<"StatusHeat", Some(2)>>,
                       <<"StatusCool", Some(2)>>, <<"SystemSwitch", Some(3)>> >>]
     ELSE IF method = "set_permananent_heat_setpoint"
     THEN [exc |-> "ok",
           data |-> << <<"HeatSetpoint", Some(temp)>>, <<"StatusHeat", Some(2)>>,
                       <<"StatusCool", Some(2)>>, <<"SystemSwitch", Some(1)>> >>]
     ELSE IF method = "set_permanent_heat_setpoint"
     THEN [exc |-> "ok",
           data |-> << <<"HeatSetpoint", Some(temp)>>, <<"StatusHeat", Some(2)>>,
                       <<"StatusCool", Some(2)>>, <<"SystemSwitch", Some(1)>> >>]
     ELSE IF method = "set_temp_heat_setpoint"
     THEN IF slot.exc # "ok" THEN [exc |-> slot.exc, data |-> <<>>]
          ELSE [exc |-> "ok",
                data |-> << <<"HeatSetpoint", Some(temp)>>, <<"StatusHeat", Some(1)>>,
                            <<"StatusCool", Some(1)>>, <<"SystemSwitch", Some(1)>>,
                            <<"HeatNextPeriod", slot.value>> >>]
     ELSE IF method = "set_temp_cool_setpoint"
     THEN IF slot.exc # "ok" THEN [exc |-> slot.exc, data |-> <<>>]
          ELSE [exc |-> "ok",
                data |-> << <<"CoolSetpoint", Some(temp)>>, <<"StatusHeat", Some(1)>>,
                            <<"StatusCool", Some(1)>>, <<"SystemSwitch", Some(3)>>,
                            <<"CoolNextPeriod", slot.value>> >>]
     ELSE IF method = "end_hold"
     THEN [exc |-> "ok",
           data |-> << <<"StatusHeat", Some(0)>>, <<"StatusCool", Some(0)>> >>]
     ELSE IF method = "turn_system_off"
     THEN [exc |-> "ok", data |-> << <<"SystemSwitch", Some(2)>> >>]
     ELSE IF method = "turn_fan_on"
     THEN [exc |-> "ok", data |-> << <<"FanMode", Some(1)>> >>]
     ELSE IF method = "turn_fan_auto"
     THEN [exc |-> "ok", data |-> << <<"FanMode", Some(0)>> >>]
     ELSE [exc |-> "ok", data |-> << <<"FanMode", Some(2)>> >>]

\* The arguments of the mutating calls: temperatures, and ends that are a
\* time of day, durations (of 23:59, of half a second, of a day and the
\* most negative one), None and a value of another type; the calls are made
\* at 01:00 and at 23:59:59.6 of 2026-10-29
MutatorTemps == {70, 99}
MutatorEnds ==
  {NoEnd, TimeOfDay(1, 16, 0, 0), TimeDelta(0, 86340, 0), TimeDelta(0, 0, 500000),
   TimeDelta(1, 0, 0), TimeDelta(-999999999, 0, 0), [type |-> "str"]}
MutatorNows == {DateTime(739918, 3600, 0), DateTime(739918, 86399, 600000)}

MutatorCalls ==
  {c \in [method : Mutators, temp : MutatorTemps, end : MutatorEnds, now : MutatorNows] :
     /\ ~TakesTemp(c.method) => c.temp = 70
     /\ ~TakesEnd(c.method) => c.end = NoEnd
     /\ c.end.type # "timedelta" => c.now = DateTime(739918, 3600, 0)}

\* The answers of the portal to the POST of the changes
ChangeAnswers ==
  { [status |-> HttpOk, text |-> <<"{", "1", "}">>,
     json |-> JsonDict([success |-> JsonNumber(1)])],
    [status |-> HttpOk, text |-> <<"{", "0", "}">>,
     json |-> JsonDict([success |-> JsonNumber(0)])],
    [status |-> HttpUnauthorized, text |-> <<>>, json |-> JsonError] }

\* A call of one of the mutating methods of the Zone: the dict is built and
\* handed to submit_control_changes, which passes it with self.device_id to
\* the client's submit_raw_control_changes and returns what that returns.
ZoneMutator(method) ==
  /\ pc = "idle"
  /\ view # NoView
  /\ \E c \in {m \in MutatorCalls : m.method = method}, result \in ChangeAnswers :
     \E changes \in {ControlChangesOf(c.method, c.temp, c.end, c.now)} :
     \E r \in {SubmitRawControlChanges(view.device_id, changes.data, result)} :
       /\ arg' = [method |-> c.method, temp |-> c.temp, end |-> c.end,
                   now |-> c.now, result |-> result]
       /\ exc' = IF changes.exc # "ok" THEN changes.exc ELSE r.exc
       /\ log' = IF changes.exc # "ok" THEN <<>> ELSE r.sent
  /\ op' = method
  /\ ret' = None
  /\ before' = Fields
  /\ pc' = "done"
  /\ NoRetryLoop
  /\ UNCHANGED <<clientVars, zonesVars, portal, view>>

\* A call of submit_control_changes(data) of the Zone: data is passed with
\* self.device_id to the client's submit_raw_control_changes.
SubmitControlChanges ==
  /\ pc = "idle"
  /\ view # NoView
  /\ \E data \in ControlChanges, result \in ChangeAnswers :
     \E r \in {SubmitRawControlChanges(view.device_id, data, result)} :
       /\ arg' = [method |-> "submit_control_changes", data |-> data,
                   result |-> result]
       /\ exc' = r.exc
       /\ log' = r.sent
  /\ op' = "submit_control_changes"
  /\ ret' = None
  /\ before' = Fields
  /\ pc' = "done"
  /\ NoRetryLoop
  /\ UNCHANGED <<clientVars, zonesVars, portal, view>>

(***************************************************************************)
(* Properties of the mutating calls of a Zone                              *)
(***************************************************************************)

MutatingMethods ==
  {"set_permananent_cool_setpoint", "set_permanent_cool_setpoint",
   "set_permananent_heat_setpoint", "set_permanent_heat_setpoint",
   "set_temp_heat_setpoint", "set_temp_cool_setpoint", "end_hold",
   "turn_system_off", "turn_fan_on", "turn_fan_auto", "turn_fan_circulate"}

\* A step that is a whole call of a mutating method
MutatorCall == pc = "idle" /\ pc' = "done" /\ op' \in MutatingMethods

\* An end the coercion accepts at the time now, and its slot
Coercible(end, now) ==
  \/ end.type \in {"time", "NoneType"}
  \/ end.type = "timedelta" /\ end.days < 1 /\ InDateTimeRange(now, end)

SlotOfEnd(end, now) ==
  IF end.type = "NoneType" THEN <<>>
  ELSE IF end.type = "time" THEN <<SlotOf(end.hour, end.minute)>>
  ELSE LET t == SecondOfDayAfter(now, end)
       IN <<SlotOf(t \div 3600, (t \div 60) % 60)>>

\* The exception of an end the coercion rejects: a duration of less than a
\* day is rejected when now + duration is no datetime
RejectionOf(end) ==
  IF end.type = "timedelta" /\ end.days < 1 THEN "OverflowError" ELSE "ValueError"

\* The fixed partial mapping of each operation
PartialMapping(method, t, slot) ==
  IF method = "set_temp_heat_setpoint"
  THEN [HeatSetpoint |-> <<t>>, StatusHeat |-> <<1>>, StatusCool |-> <<1>>,
        SystemSwitch |-> <<1>>, HeatNextPeriod |-> slot]
  ELSE IF method = "set_temp_cool_setpoint"
  THEN [CoolSetpoint |-> <<t>>, StatusHeat |-> <<1>>, StatusCool |-> <<1>>,
        SystemSwitch |-> <<3>>, CoolNextPeriod |-> slot]
  ELSE IF method \in {"set_permanent_heat_setpoint", "set_permananent_heat_setpoint"}
  THEN [HeatSetpoint |-> <<t>>, StatusHeat |-> <<2>>, StatusCool |-> <<2>>,
        SystemSwitch |-> <<1>>]
  ELSE IF method \in {"set_permanent_cool_setpoint", "set_permananent_cool_setpoint"}
  THEN [CoolSetpoint |-> <<t>>, StatusHeat |-> <<2>>, StatusCool |-> <<2>>,
        SystemSwitch |-> <<3>>]
  ELSE IF method = "end_hold" THEN [StatusHeat |-> <<0>>, StatusCool |-> <<0>>]
  ELSE IF method = "turn_system_off" THEN [SystemSwitch |-> <<2>>]
  ELSE IF method = "turn_fan_on" THEN [FanMode |-> <<1>>]
  ELSE IF method = "turn_fan_auto" THEN [FanMode |-> <<0>>]
  ELSE [FanMode |-> <<2>>]

\* What the raw submission of the call does with the portal's answer
SubmissionOutcome(result) ==
  IF result.status # 200 THEN "UnauthorizedError"
  ELSE IF result.json.fields.success.value = 1 THEN "ok"
  ELSE "ValueError"

\* The step made exactly one raw submission, for the view's device_id and
\* with the operation's mapping, returned its result, fetched no zones and
\* left the view alone.
OneSubmission ==
  /\ Len(log') = 1
  /\ log'[1].kind = "submit"
  /\ LET mapping == PartialMapping(arg'.method, arg'.temp,
                                   SlotOfEnd(arg'.end, arg'.now))
     IN \A k \in NineFields :
          log'[1].body[k] = IF k \in DOMAIN mapping THEN mapping[k]
                            ELSE IF k = "DeviceID" THEN <<view.device_id>>
                            ELSE <<>>
  /\ exc' = SubmissionOutcome(arg'.result)
  /\ ret' = <<>>
  /\ zones' = <<>>
  /\ view' = view

\* C18 as stated: every mutating call makes exactly one raw submission for
\* the view's device_id with the operation's mapping, returns its result,
\* and neither refreshes nor changes the view.
C18_AlwaysOneSubmission == [][MutatorCall => OneSubmission]_vars

\* C18, amended: a mutating call whose end the coercion accepts (every call
\* of a method without an end) does so; a temporary hold whose end the
\* coercion rejects raises the exception of the coercion (ValueError for a
\* duration of a day or more and for a value of another type, OverflowError
\* for a shorter duration with which now + duration is no datetime),
\* submits nothing and leaves the view alone.
C18_OneSubmissionUnlessEndRejected ==
  [][MutatorCall =>
       IF Coercible(arg'.end, arg'.now)
       THEN OneSubmission
       ELSE /\ exc' = RejectionOf(arg'.end)
            /\ ret' = <<>>
            /\ log' = <<>>
            /\ zones' = <<>>
            /\ view' = view]_vars

\* C18 witness: a temporary heat hold until 23:59 from 01:00 posted slot 4
\* for the view's device.
C18_Witness ==
  /\ pc = "done"
  /\ op = "set_temp_heat_setpoint"
  /\ arg.end = TimeDelta(0, 86340, 0)
  /\ arg.now = DateTime(739918, 3600, 0)
  /\ exc = "ok"
  /\ Len(log) = 1
  /\ log[1].body.HeatNextPeriod = <<4>>
  /\ log[1].body.HeatSetpoint = <<arg.temp>>
  /\ log[1].body.DeviceID = <<view.device_id>>
  /\ view.device_id = 777999

\* A temporary cool hold with an end of one day submitted nothing.
C18_RejectedEndReached ==
  /\ pc = "done"
  /\ op = "set_temp_cool_setpoint"
  /\ arg.end = TimeDelta(1, 0, 0)
  /\ exc = "ValueError"
  /\ log = <<>>

\* A temporary heat hold with the most negative duration submitted nothing.
C18_OverflowingEndReached ==
  /\ pc = "done"
  /\ op = "set_temp_heat_setpoint"
  /\ arg.end = TimeDelta(-999999999, 0, 0)
  /\ exc = "OverflowError"
  /\ log = <<>>

\* A temporary cool hold of half a second made at 23:59:59.6 posted slot 0.
C18_NextDayReached ==
  /\ pc = "done"
  /\ op = "set_temp_cool_setpoint"
  /\ arg.end = TimeDelta(0, 0, 500000)
  /\ arg.now = DateTime(739918, 86399, 600000)
  /\ Len(log) = 1
  /\ log[1].body.CoolNextPeriod = <<0>>

NextView ==
  \/ GetZoneByName
  \/ GetAllZones
  \/ NewZone
  \/ SetDeviceId
  \/ RefreshZoneInfo
  \/ \E method \in Mutators : ZoneMutator(method)
  \/ SubmitControlChanges
  \/ ZonesChange
  \/ Return

SpecView == InitView /\ [][NextView]_vars

(***************************************************************************)
(* Zone: the calls that read the thermostat                                *)
(***************************************************************************)

\* The int a JSON value equals, if any: True is 1 and False is 0
IntEqualTo(v) ==
  IF v.kind = "number" THEN Some(v.value)
  ELSE IF v.kind = "bool" THEN Some(IF v.value THEN 1 ELSE 0)
  ELSE None

\* SystemMode(v) and FanMode(v): the member whose value v equals,
\* ValueError when the enum has none
SystemModeNames ==
  <<"EMHeat", "Heat", "Off", "Cool", "AutoHeat", "AutoCool", "SouthernAway", "Unknown">>
SystemModeOf(v) ==
  LET n == IntEqualTo(v)
  IN IF n # None /\ n[1] \in 0..(Len(SystemModeNames) - 1)
     THEN [exc |-> "ok", value |-> SystemModeNames[n[1] + 1]]
     ELSE [exc |-> "ValueError", value |-> <<>>]

FanModeNames == <<"Auto", "On", "Circulate", "FollowSchedule", "Unknown">>
FanModeOf(v) ==
  LET n == IntEqualTo(v)
  IN IF n # None /\ n[1] \in 0..(Len(FanModeNames) - 1)
     THEN [exc |-> "ok", value |-> FanModeNames[n[1] + 1]]
     ELSE [exc |-> "ValueError", value |-> <<>>]

\* int(v) of a JSON value: an int as it is, True and False as 1 and 0, a
\* text as int() reads it or ValueError; None, a list and a dict are
\* TypeError
IntOf(v) ==
  IF v.kind = "number" THEN [exc |-> "ok", value |-> v.value]
  ELSE IF v.kind = "bool" THEN [exc |-> "ok", value |-> IF v.value THEN 1 ELSE 0]
  ELSE IF v.kind = "string"
  THEN Only({ IF n.ok THEN [exc |-> "ok", value |-> n.v]
              ELSE [exc |-> "ValueError", value |-> <<>>] : n \in {PyInt(v.value)} })
  ELSE [exc |-> "TypeError", value |-> <<>>]

\* bool(v) of a JSON value
BoolOf(v) == [exc |-> "ok", value |-> ~Falsy(v)]

\* zone_info[path[1]][path[2]]...: zone_info is a dict; KeyError at the
\* first key a dict lacks, TypeError when a value on the way is no dict
\* (None, a number, a text and a list cannot be subscripted with a key)
RECURSIVE Lookup(_, _)
Lookup(d, path) ==
  IF path = <<>> THEN [exc |-> "ok", value |-> d]
  ELSE IF Head(path) \notin DOMAIN d THEN [exc |-> "KeyError", value |-> <<>>]
  ELSE IF Tail(path) = <<>> THEN [exc |-> "ok", value |-> d[Head(path)]]
  ELSE IF d[Head(path)].kind # "dict" THEN [exc |-> "TypeError", value |-> <<>>]
  ELSE Lookup(d[Head(path)].fields, Tail(path))

\* str(n) of an int
RECURSIVE DecimalText(_)
DecimalText(n) ==
  LET digit(d) == <<"0", "1", "2", "3", "4", "5", "6", "7", "8", "9">>[d + 1]
  IN IF n < 10 THEN <<digit(n)>>
     ELSE Append(DecimalText(n \div 10), digit(n % 10))
StrOfInt(n) == IF n < 0 THEN <<"-">> \o DecimalText(0 - n) ELSE DecimalText(n)

\* str(v) of a value that is an int or None
StrOfOptional(v) == IF v = None THEN <<"N", "o", "n", "e">> ELSE StrOfInt(v[1])

\* The characters repr() of a text escapes whatever the quotes are, each
\* with its escape: the backslash, and the characters for which
\* str.isprintable() is false (the controls, the format characters and the
\* separators but the space, of Unicode 14.0; the code points it leaves
\* unassigned, for private use or to surrogates, and the character of
\* code 0, are none of the model's characters)
ReprEscapes ==
  { [char |-> "", text |-> <<"\\", "x", "0", "1">>],
   [char |-> "", text |-> <<"\\", "x", "0", "2">>],
   [char |-> "", text |-> <<"\\", "x", "0", "3">>],
   [char |-> "", text |-> <<"\\", "x", "0", "4">>],
   [char |-> "", text |-> <<"\\", "x", "0", "5">>],
   [char |-> "", text |-> <<"\\", "x", "0", "6">>],
   [char |-> "", text |-> <<"\\", "x", "0", "7">>],
   [char |-> "", text |-> <<"\\", "x", "0", "8">>], [char |-> "\t", text |-> <<"\\", "t">>],
   [char |-> "\n", text |-> <<"\\", "n">>], [char |-> "", text |-> <<"\\", "x", "0", "b">>],
   [char |-> "\f", text |-> <<"\\", "x", "0", "c">>], [char |-> "\r", text |-> <<"\\", "r">>],
   [char |-> "", text |-> <<"\\", "x", "0", "e">>],
   [char |-> "", text |-> <<"\\", "x", "0", "f">>],
   [char |-> "", text |-> <<"\\", "x", "1", "0">>],
   [char |-> "", text |-> <<"\\", "x", "1", "1">>],
   [char |-> "", text |-> <<"\\", "x", "1", "2">>],
   [char |-> "", text |-> <<"\\", "x", "1", "3">>],
   [char |-> "", text |-> <<"\\", "x", "1", "4">>],
   [char |-> "", text |-> <<"\\", "x", "1", "5">>],
   [char |-> "", text |-> <<"\\", "x", "1", "6">>],
   [char |-> "", text |-> <<"\\", "x", "1", "7">>],
   [char |-> "", text |-> <<"\\", "x", "1", "8">>],
   [char |-> "", text |-> <<"\\", "x", "1", "9">>],
   [char |-> "", text |-> <<"\\", "x", "1", "a">>],
   [char |-> "", text |-> <<"\\", "x", "1", "b">>],
   [char |-> "", text |-> <<"\\", "x", "1", "c">>],
   [char |-> "", text |-> <<"\\", "x", "1", "d">>],
   [char |-> "", text |-> <<"\\", "x", "1", "e">>],
   [char |-> "", text |-> <<"\\", "x", "1", "f">>], [char |-> "\\", text |-> <<"\\", "\\">>],
   [char |-> "", text |-> <<"\\", "x", "7", "f">>],
   [char |-> "U+0080", text |-> <<"\\", "x", "8", "0">>],
   [char |-> "U+0081", text |-> <<"\\", "x", "8", "1">>],
   [char |-> "U+0082", text |-> <<"\\", "x", "8", "2">>],
   [char |-> "U+0083", text |-> <<"\\", "x", "8", "3">>],
   [char |-> "U+0084", text |-> <<"\\", "x", "8", "4">>],
   [char |-> "U+0085", text |-> <<"\\", "x", "8", "5">>],
   [char |-> "U+0086", text |-> <<"\\", "x", "8", "6">>],
   [char |-> "U+0087", text |-> <<"\\", "x", "8", "7">>],
   [char |-> "U+0088", text |-> <<"\\", "x", "8", "8">>],
   [char |-> "U+0089", text |-> <<"\\", "x", "8", "9">>],
   [char |-> "U+008A", text |-> <<"\\", "x", "8", "a">>],
   [char |-> "U+008B", text |-> <<"\\", "x", "8", "b">>],
   [char |-> "U+008C", text |-> <<"\\", "x", "8", "c">>],
   [char |-> "U+008D", text |-> <<"\\", "x", "8", "d">>],
   [char |-> "U+008E", text |-> <<"\\", "x", "8", "e">>],
   [char |-> "U+008F", text |-> <<"\\", "x", "8", "f">>],
   [char |-> "U+0090", text |-> <<"\\", "x", "9", "0">>],
   [char |-> "U+0091", text |-> <<"\\", "x", "9", "1">>],
   [char |-> "U+0092", text |-> <<"\\", "x", "9", "2">>],
   [char |-> "U+0093", text |-> <<"\\", "x", "9", "3">>],
   [char |-> "U+0094", text |-> <<"\\", "x", "9", "4">>],
   [char |-> "U+0095", text |-> <<"\\", "x", "9", "5">>],
   [char |-> "U+0096", text |-> <<"\\", "x", "9", "6">>],
   [char |-> "U+0097", text |-> <<"\\", "x", "9", "7">>],
   [char |-> "U+0098", text |-> <<"\\", "x", "9", "8">>],
   [char |-> "U+0099", text |-> <<"\\", "x", "9", "9">>],
   [char |-> "U+009A", text |-> <<"\\", "x", "9", "a">>],
   [char |-> "U+009B", text |-> <<"\\", "x", "9", "b">>],
   [char |-> "U+009C", text |-> <<"\\", "x", "9", "c">>],
   [char |-> "U+009D", text |-> <<"\\", "x", "9", "d">>],
   [char |-> "U+009E", text |-> <<"\\", "x", "9", "e">>],
   [char |-> "U+009F", text |-> <<"\\", "x", "9", "f">>],
   [char |-> "U+00A0", text |-> <<"\\", "x", "a", "0">>],
   [char |-> "U+00AD", text |-> <<"\\", "x", "a", "d">>],
   [char |-> "U+0600", text |-> <<"\\", "u", "0", "6", "0", "0">>],
   [char |-> "U+0601", text |-> <<"\\", "u", "0", "6", "0", "1">>],
   [char |-> "U+0602", text |-> <<"\\", "u", "0", "6", "0", "2">>],
   [char |-> "U+0603", text |-> <<"\\", "u", "0", "6", "0", "3">>],
   [char |-> "U+0604", text |-> <<"\\", "u", "0", "6", "0", "4">>],
   [char |-> "U+0605", text |-> <<"\\", "u", "0", "6", "0", "5">>],
   [char |-> "U+061C", text |-> <<"\\", "u", "0", "6", "1", "c">>],
   [char |-> "U+06DD", text |-> <<"\\", "u", "0", "6", "d", "d">>],
   [char |-> "U+070F", text |-> <<"\\", "u", "0", "7", "0", "f">>],
   [char |-> "U+0890", text |-> <<"\\", "u", "0", "8", "9", "0">>],
   [char |-> "U+0891", text |-> <<"\\", "u", "0", "8", "9", "1">>],
   [char |-> "U+08E2", text |-> <<"\\", "u", "0", "8", "e", "2">>],
   [char |-> "U+1680", text |-> <<"\\", "u", "1", "6", "8", "0">>],
   [char |-> "U+180E", text |-> <<"\\", "u", "1", "8", "0", "e">>],
   [char |-> "U+2000", text |-> <<"\\", "u", "2", "0", "0", "0">>],
   [char |-> "U+2001", text |-> <<"\\", "u", "2", "0", "0", "1">>],
   [char |-> "U+2002", text |-> <<"\\", "u", "2", "0", "0", "2">>],
   [char |-> "U+2003", text |-> <<"\\", "u", "2", "0", "0", "3">>],
   [char |-> "U+2004", text |-> <<"\\", "u", "2", "0", "0", "4">>],
   [char |-> "U+2005", text |-> <<"\\", "u", "2", "0", "0", "5">>],
   [char |-> "U+2006", text |-> <<"\\", "u", "2", "0", "0", "6">>],
   [char |-> "U+2007", text |-> <<"\\", "u", "2", "0", "0", "7">>],
   [char |-> "U+2008", text |-> <<"\\", "u", "2", "0", "0", "8">>],
   [char |-> "U+2009", text |-> <<"\\", "u", "2", "0", "0", "9">>],
   [char |-> "U+200A", text |-> <<"\\", "u", "2", "0", "0", "a">>],
   [char |-> "U+200B", text |-> <<"\\", "u", "2", "0", "0", "b">>],
   [char |-> "U+200C", text |-> <<"\\", "u", "2", "0", "0", "c">>],
   [char |-> "U+200D", text |-> <<"\\", "u", "2", "0", "0", "d">>],
   [char |-> "U+200E", text |-> <<"\\", "u", "2", "0", "0", "e">>],
   [char |-> "U+200F", text |-> <<"\\", "u", "2", "0", "0", "f">>],
   [char |-> "U+2028", text |-> <<"\\", "u", "2", "0", "2", "8">>],
   [char |-> "U+2029", text |-> <<"\\", "u", "2", "0", "2", "9">>],
   [char |-> "U+202A", text |-> <<"\\", "u", "2", "0", "2", "a">>],
   [char |-> "U+202B", text |-> <<"\\", "u", "2", "0", "2", "b">>],
   [char |-> "U+202C", text |-> <<"\\", "u", "2", "0", "2", "c">>],
   [char |-> "U+202D", text |-> <<"\\", "u", "2", "0", "2", "d">>],
   [char |-> "U+202E", text |-> <<"\\", "u", "2", "0", "2", "e">>],
   [char |-> "U+202F", text |-> <<"\\", "u", "2", "0", "2", "f">>],
   [char |-> "U+205F", text |-> <<"\\", "u", "2", "0", "5", "f">>],
   [char |-> "U+2060", text |-> <<"\\", "u", "2", "0", "6", "0">>],
   [char |-> "U+2061", text |-> <<"\\", "u", "2", "0", "6", "1">>],
   [char |-> "U+2062", text |-> <<"\\", "u", "2", "0", "6", "2">>],
   [char |-> "U+2063", text |-> <<"\\", "u", "2", "0", "6", "3">>],
   [char |-> "U+2064", text |-> <<"\\", "u", "2", "0", "6", "4">>],
   [char |-> "U+2066", text |-> <<"\\", "u", "2", "0", "6", "6">>],
   [char |-> "U+2067", text |-> <<"\\", "u", "2", "0", "6", "7">>],
   [char |-> "U+2068", text |-> <<"\\", "u", "2", "0", "6", "8">>],
   [char |-> "U+2069", text |-> <<"\\", "u", "2", "0", "6", "9">>],
   [char |-> "U+206A", text |-> <<"\\", "u", "2", "0", "6", "a">>],
   [char |-> "U+206B", text |-> <<"\\", "u", "2", "0", "6", "b">>],
   [char |-> "U+206C", text |-> <<"\\", "u", "2", "0", "6", "c">>],
   [char |-> "U+206D", text |-> <<"\\", "u", "2", "0", "6", "d">>],
   [char |-> "U+206E", text |-> <<"\\", "u", "2", "0", "6", "e">>],
   [char |-> "U+206F", text |-> <<"\\", "u", "2", "0", "6", "f">>],
   [char |-> "U+3000", text |-> <<"\\", "u", "3", "0", "0", "0">>],
   [char |-> "U+FEFF", text |-> <<"\\", "u", "f", "e", "f", "f">>],
   [char |-> "U+FFF9", text |-> <<"\\", "u", "f", "f", "f", "9">>],
   [char |-> "U+FFFA", text |-> <<"\\", "u", "f", "f", "f", "a">>],
   [char |-> "U+FFFB", text |-> <<"\\", "u", "f", "f", "f", "b">>],
   [char |-> "U+110BD", text |-> <<"\\", "U", "0", "0", "0", "1", "1", "0", "b", "d">>],
   [char |-> "U+110CD", text |-> <<"\\", "U", "0", "0", "0", "1", "1", "0", "c", "d">>],
   [char |-> "U+13430", text |-> <<"\\", "U", "0", "0", "0", "1", "3", "4", "3", "0">>],
   [char |-> "U+13431", text |-> <<"\\", "U", "0", "0", "0", "1", "3", "4", "3", "1">>],
   [char |-> "U+13432", text |-> <<"\\", "U", "0", "0", "0", "1", "3", "4", "3", "2">>],
   [char |-> "U+13433", text |-> <<"\\", "U", "0", "0", "0", "1", "3", "4", "3", "3">>],
   [char |-> "U+13434", text |-> <<"\\", "U", "0", "0", "0", "1", "3", "4", "3", "4">>],
   [char |-> "U+13435", text |-> <<"\\", "U", "0", "0", "0", "1", "3", "4", "3", "5">>],
   [char |-> "U+13436", text |-> <<"\\", "U", "0", "0", "0", "1", "3", "4", "3", "6">>],
   [char |-> "U+13437", text |-> <<"\\", "U", "0", "0", "0", "1", "3", "4", "3", "7">>],
   [char |-> "U+13438", text |-> <<"\\", "U", "0", "0", "0", "1", "3", "4", "3", "8">>],
   [char |-> "U+1BCA0", text |-> <<"\\", "U", "0", "0", "0", "1", "b", "c", "a", "0">>],
   [char |-> "U+1BCA1", text |-> <<"\\", "U", "0", "0", "0", "1", "b", "c", "a", "1">>],
   [char |-> "U+1BCA2", text |-> <<"\\", "U", "0", "0", "0", "1", "b", "c", "a", "2">>],
   [char |-> "U+1BCA3", text |-> <<"\\", "U", "0", "0", "0", "1", "b", "c", "a", "3">>],
   [char |-> "U+1D173", text |-> <<"\\", "U", "0", "0", "0", "1", "d", "1", "7", "3">>],
   [char |-> "U+1D174", text |-> <<"\\", "U", "0", "0", "0", "1", "d", "1", "7", "4">>],
   [char |-> "U+1D175", text |-> <<"\\", "U", "0", "0", "0", "1", "d", "1", "7", "5">>],
   [char |-> "U+1D176", text |-> <<"\\", "U", "0", "0", "0", "1", "d", "1", "7", "6">>],
   [char |-> "U+1D177", text |-> <<"\\", "U", "0", "0", "0", "1", "d", "1", "7", "7">>],
   [char |-> "U+1D178", text |-> <<"\\", "U", "0", "0", "0", "1", "d", "1", "7", "8">>],
   [char |-> "U+1D179", text |-> <<"\\", "U", "0", "0", "0", "1", "d", "1", "7", "9">>],
   [char |-> "U+1D17A", text |-> <<"\\", "U", "0", "0", "0", "1", "d", "1", "7", "a">>],
   [char |-> "U+E0001", text |-> <<"\\", "U", "0", "0", "0", "e", "0", "0", "0", "1">>],
   [char |-> "U+E0020", text |-> <<"\\", "U", "0", "0", "0", "e", "0", "0", "2", "0">>],
   [char |-> "U+E0021", text |-> <<"\\", "U", "0", "0", "0", "e", "0", "0", "2", "1">>],
   [char |-> "U+E0022", text |-> <<"\\", "U", "0", "0", "0", "e", "0", "0", "2", "2">>],
   [char |-> "U+E0023", text |-> <<"\\", "U", "0", "0", "0", "e", "0", "0", "2", "3">>],
   [char |-> "U+E0024", text |-> <<"\\", "U", "0", "0", "0", "e", "0", "0", "2", "4">>],
   [char |-> "U+E0025", text |-> <<"\\", "U", "0", "0", "0", "e", "0", "0", "2", "5">>],
   [char |-> "U+E0026", text |-> <<"\\", "U", "0", "0", "0", "e", "0", "0", "2", "6">>],
   [char |-> "U+E0027", text |-> <<"\\", "U", "0", "0", "0", "e", "0", "0", "2", "7">>],
   [char |-> "U+E0028", text |-> <<"\\", "U", "0", "0", "0", "e", "0", "0", "2", "8">>],
   [char |-> "U+E0029", text |-> <<"\\", "U", "0", "0", "0", "e", "0", "0", "2", "9">>],
   [char |-> "U+E002A", text |-> <<"\\", "U", "0", "0", "0", "e", "0", "0", "2", "a">>],
   [char |-> "U+E002B", text |-> <<"\\", "U", "0", "0", "0", "e", "0", "0", "2", "b">>],
   [char |-> "U+E002C", text |-> <<"\\", "U", "0", "0", "0", "e", "0", "0", "2", "c">>],
   [char |-> "U+E002D", text |-> <<"\\", "U", "0", "0", "0", "e", "0", "0", "2", "d">>],
   [char |-> "U+E002E", text |-> <<"\\", "U", "0", "0", "0", "e", "0", "0", "2", "e">>],
   [char |-> "U+E002F", text |-> <<"\\", "U", "0", "0", "0", "e", "0", "0", "2", "f">>],
   [char |-> "U+E0030", text |-> <<"\\", "U", "0", "0", "0", "e", "0", "0", "3", "0">>],
   [char |-> "U+E0031", text |-> <<"\\", "U", "0", "0", "0", "e", "0", "0", "3", "1">>],
   [char |-> "U+E0032", text |-> <<"\\", "U", "0", "0", "0", "e", "0", "0", "3", "2">>],
   [char |-> "U+E0033", text |-> <<"\\", "U", "0", "0", "0", "e", "0", "0", "3", "3">>],
   [char |-> "U+E0034", text |-> <<"\\", "U", "0", "0", "0", "e", "0", "0", "3", "4">>],
   [char |-> "U+E0035", text |-> <<"\\", "U", "0", "0", "0", "e", "0", "0", "3", "5">>],
   [char |-> "U+E0036", text |-> <<"\\", "U", "0", "0", "0", "e", "0", "0", "3", "6">>],
   [char |-> "U+E0037", text |-> <<"\\", "U", "0", "0", "0", "e", "0", "0", "3", "7">>],
   [char |-> "U+E0038", text |-> <<"\\", "U", "0", "0", "0", "e", "0", "0", "3", "8">>],
   [char |-> "U+E0039", text |-> <<"\\", "U", "0", "0", "0", "e", "0", "0", "3", "9">>],
   [char |-> "U+E003A", text |-> <<"\\", "U", "0", "0", "0", "e", "0", "0", "3", "a">>],
   [char |-> "U+E003B", text |-> <<"\\", "U", "0", "0", "0", "e", "0", "0", "3", "b">>],
   [char |-> "U+E003C", text |-> <<"\\", "U", "0", "0", "0", "e", "0", "0", "3", "c">>],
   [char |-> "U+E003D", text |-> <<"\\", "U", "0", "0", "0", "e", "0", "0", "3", "d">>],
   [char |-> "U+E003E", text |-> <<"\\", "U", "0", "0", "0", "e", "0", "0", "3", "e">>],
   [char |-> "U+E003F", text |-> <<"\\", "U", "0", "0", "0", "e", "0", "0", "3", "f">>],
   [char |-> "U+E0040", text |-> <<"\\", "U", "0", "0", "0", "e", "0", "0", "4", "0">>],
   [char |-> "U+E0041", text |-> <<"\\", "U", "0", "0", "0", "e", "0", "0", "4", "1">>],
   [char |-> "U+E0042", text |-> <<"\\", "U", "0", "0", "0", "e", "0", "0", "4", "2">>],
   [char |-> "U+E0043", text |-> <<"\\", "U", "0", "0", "0", "e", "0", "0", "4", "3">>],
   [char |-> "U+E0044", text |-> <<"\\", "U", "0", "0", "0", "e", "0", "0", "4", "4">>],
   [char |-> "U+E0045", text |-> <<"\\", "U", "0", "0", "0", "e", "0", "0", "4", "5">>],
   [char |-> "U+E0046", text |-> <<"\\", "U", "0", "0", "0", "e", "0", "0", "4", "6">>],
   [char |-> "U+E0047", text |-> <<"\\", "U", "0", "0", "0", "e", "0", "0", "4", "7">>],
   [char |-> "U+E0048", text |-> <<"\\", "U", "0", "0", "0", "e", "0", "0", "4", "8">>],
   [char |-> "U+E0049", text |-> <<"\\", "U", "0", "0", "0", "e", "0", "0", "4", "9">>],
   [char |-> "U+E004A", text |-> <<"\\", "U", "0", "0", "0", "e", "0", "0", "4", "a">>],
   [char |-> "U+E004B", text |-> <<"\\", "U", "0", "0", "0", "e", "0", "0", "4", "b">>],
   [char |-> "U+E004C", text |-> <<"\\", "U", "0", "0", "0", "e", "0", "0", "4", "c">>],
   [char |-> "U+E004D", text |-> <<"\\", "U", "0", "0", "0", "e", "0", "0", "4", "d">>],
   [char |-> "U+E004E", text |-> <<"\\", "U", "0", "0", "0", "e", "0", "0", "4", "e">>],
   [char |-> "U+E004F", text |-> <<"\\", "U", "0", "0", "0", "e", "0", "0", "4", "f">>],
   [char |-> "U+E0050", text |-> <<"\\", "U", "0", "0", "0", "e", "0", "0", "5", "0">>],
   [char |-> "U+E0051", text |-> <<"\\", "U", "0", "0", "0", "e", "0", "0", "5", "1">>],
   [char |-> "U+E0052", text |-> <<"\\", "U", "0", "0", "0", "e", "0", "0", "5", "2">>],
   [char |-> "U+E0053", text |-> <<"\\", "U", "0", "0", "0", "e", "0", "0", "5", "3">>],
   [char |-> "U+E0054", text |-> <<"\\", "U", "0", "0", "0", "e", "0", "0", "5", "4">>],
   [char |-> "U+E0055", text |-> <<"\\", "U", "0", "0", "0", "e", "0", "0", "5", "5">>],
   [char |-> "U+E0056", text |-> <<"\\", "U", "0", "0", "0", "e", "0", "0", "5", "6">>],
   [char |-> "U+E0057", text |-> <<"\\", "U", "0", "0", "0", "e", "0", "0", "5", "7">>],
   [char |-> "U+E0058", text |-> <<"\\", "U", "0", "0", "0", "e", "0", "0", "5", "8">>],
   [char |-> "U+E0059", text |-> <<"\\", "U", "0", "0", "0", "e", "0", "0", "5", "9">>],
   [char |-> "U+E005A", text |-> <<"\\", "U", "0", "0", "0", "e", "0", "0", "5", "a">>],
   [char |-> "U+E005B", text |-> <<"\\", "U", "0", "0", "0", "e", "0", "0", "5", "b">>],
   [char |-> "U+E005C", text |-> <<"\\", "U", "0", "0", "0", "e", "0", "0", "5", "c">>],
   [char |-> "U+E005D", text |-> <<"\\", "U", "0", "0", "0", "e", "0", "0", "5", "d">>],
   [char |-> "U+E005E", text |-> <<"\\", "U", "0", "0", "0", "e", "0", "0", "5", "e">>],
   [char |-> "U+E005F", text |-> <<"\\", "U", "0", "0", "0", "e", "0", "0", "5", "f">>],
   [char |-> "U+E0060", text |-> <<"\\", "U", "0", "0", "0", "e", "0", "0", "6", "0">>],
   [char |-> "U+E0061", text |-> <<"\\", "U", "0", "0", "0", "e", "0", "0", "6", "1">>],
   [char |-> "U+E0062", text |-> <<"\\", "U", "0", "0", "0", "e", "0", "0", "6", "2">>],
   [char |-> "U+E0063", text |-> <<"\\", "U", "0", "0", "0", "e", "0", "0", "6", "3">>],
   [char |-> "U+E0064", text |-> <<"\\", "U", "0", "0", "0", "e", "0", "0", "6", "4">>],
   [char |-> "U+E0065", text |-> <<"\\", "U", "0", "0", "0", "e", "0", "0", "6", "5">>],
   [char |-> "U+E0066", text |-> <<"\\", "U", "0", "0", "0", "e", "0", "0", "6", "6">>],
   [char |-> "U+E0067", text |-> <<"\\", "U", "0", "0", "0", "e", "0", "0", "6", "7">>],
   [char |-> "U+E0068", text |-> <<"\\", "U", "0", "0", "0", "e", "0", "0", "6", "8">>],
   [char |-> "U+E0069", text |-> <<"\\", "U", "0", "0", "0", "e", "0", "0", "6", "9">>],
   [char |-> "U+E006A", text |-> <<"\\", "U", "0", "0", "0", "e", "0", "0", "6", "a">>],
   [char |-> "U+E006B", text |-> <<"\\", "U", "0", "0", "0", "e", "0", "0", "6", "b">>],
   [char |-> "U+E006C", text |-> <<"\\", "U", "0", "0", "0", "e", "0", "0", "6", "c">>],
   [char |-> "U+E006D", text |-> <<"\\", "U", "0", "0", "0", "e", "0", "0", "6", "d">>],
   [char |-> "U+E006E", text |-> <<"\\", "U", "0", "0", "0", "e", "0", "0", "6", "e">>],
   [char |-> "U+E006F", text |-> <<"\\", "U", "0", "0", "0", "e", "0", "0", "6", "f">>],
   [char |-> "U+E0070", text |-> <<"\\", "U", "0", "0", "0", "e", "0", "0", "7", "0">>],
   [char |-> "U+E0071", text |-> <<"\\", "U", "0", "0", "0", "e", "0", "0", "7", "1">>],
   [char |-> "U+E0072", text |-> <<"\\", "U", "0", "0", "0", "e", "0", "0", "7", "2">>],
   [char |-> "U+E0073", text |-> <<"\\", "U", "0", "0", "0", "e", "0", "0", "7", "3">>],
   [char |-> "U+E0074", text |-> <<"\\", "U", "0", "0", "0", "e", "0", "0", "7", "4">>],
   [char |-> "U+E0075", text |-> <<"\\", "U", "0", "0", "0", "e", "0", "0", "7", "5">>],
   [char |-> "U+E0076", text |-> <<"\\", "U", "0", "0", "0", "e", "0", "0", "7", "6">>],
   [char |-> "U+E0077", text |-> <<"\\", "U", "0", "0", "0", "e", "0", "0", "7", "7">>],
   [char |-> "U+E0078", text |-> <<"\\", "U", "0", "0", "0", "e", "0", "0", "7", "8">>],
   [char |-> "U+E0079", text |-> <<"\\", "U", "0", "0", "0", "e", "0", "0", "7", "9">>],
   [char |-> "U+E007A", text |-> <<"\\", "U", "0", "0", "0", "e", "0", "0", "7", "a">>],
   [char |-> "U+E007B", text |-> <<"\\", "U", "0", "0", "0", "e", "0", "0", "7", "b">>],
   [char |-> "U+E007C", text |-> <<"\\", "U", "0", "0", "0", "e", "0", "0", "7", "c">>],
   [char |-> "U+E007D", text |-> <<"\\", "U", "0", "0", "0", "e", "0", "0", "7", "d">>],
   [char |-> "U+E007E", text |-> <<"\\", "U", "0", "0", "0", "e", "0", "0", "7", "e">>],
   [char |-> "U+E007F", text |-> <<"\\", "U", "0", "0", "0", "e", "0", "0", "7", "f">>] }

\* Python: sep.join(segments)
RECURSIVE JoinBy(_, _)
JoinBy(sep, segments) ==
  IF segments = <<>> THEN <<>>
  ELSE IF Len(segments) = 1 THEN segments[1]
  ELSE segments[1] \o sep \o JoinBy(sep, Tail(segments))

\* repr(text) of a text: in single quotes, or in double quotes when it has
\* a single quote and no double one; the quote and the characters of
\* ReprEscapes are escaped
ReprOfText(text) ==
  LET chars == {text[k] : k \in 1..Len(text)}
      quote == IF "'" \in chars /\ "\"" \notin chars THEN "\"" ELSE "'"
      escaped(c) ==
        IF c = quote THEN <<"\\", c>>
        ELSE IF \E e \in ReprEscapes : e.char = c
        THEN (CHOOSE e \in ReprEscapes : e.char = c).text
        ELSE <<c>>
  IN <<quote>> \o JoinBy(<<>>, [k \in 1..Len(text) |-> escaped(text[k])]) \o <<quote>>

\* The key of a dict that a text spells
RECURSIVE KeyOf(_)
KeyOf(text) == IF text = <<>> THEN "" ELSE text[1] \o KeyOf(Tail(text))

\* The keys of a dict as spelled, in the order of the document
KeysOf(v) ==
  CASE "keys" \in DOMAIN v -> v.keys
    [] DOMAIN v.fields = {} -> <<>>

\* repr(v) of a JSON value: None, a bool and an int as str() writes them, a
\* text as repr() quotes it, a list and a dict with the repr() of their
\* items, a dict in the order of its keys
RECURSIVE ReprOf(_)
ReprOf(v) ==
  CASE v.kind = "null" -> <<"N", "o", "n", "e">>
    [] v.kind = "bool" -> IF v.value THEN <<"T", "r", "u", "e">>
                          ELSE <<"F", "a", "l", "s", "e">>
    [] v.kind = "number" -> StrOfInt(v.value)
    [] v.kind = "string" -> ReprOfText(v.value)
    [] v.kind = "list" ->
         <<"[">> \o JoinBy(<<",", " ">>,
                           [k \in 1..Len(v.items) |-> ReprOf(v.items[k])])
         \o <<"]">>
    [] v.kind = "dict" ->
         <<"{">> \o JoinBy(<<",", " ">>,
                           [k \in 1..Len(KeysOf(v)) |->
                              ReprOfText(KeysOf(v)[k]) \o <<":", " ">>
                              \o ReprOf(v.fields[KeyOf(KeysOf(v)[k])])])
         \o <<"}">>

\* str(v) of a JSON value: a text is itself, any other value is written as
\* repr() writes it
StrOf(v) == IF v.kind = "string" THEN v.value ELSE ReprOf(v)

\* The accessors that return a field of the record as it is fetched, and
\* those that add the unit to what one of the former returns
RawAccessors ==
  {"get_system_mode", "is_equipment_output_on", "get_current_temperature_raw",
   "get_fan_mode", "is_fan_running", "get_heat_setpoint_raw",
   "get_cool_setpoint_raw", "get_outdoor_temperature_raw",
   "get_indoor_temperature_raw", "get_indoor_humidity_raw"}

RawOf(method) ==
  IF method = "get_current_temperature" THEN "get_current_temperature_raw"
  ELSE IF method = "get_heat_setpoint" THEN "get_heat_setpoint_raw"
  ELSE IF method = "get_cool_setpoint" THEN "get_cool_setpoint_raw"
  ELSE IF method = "get_outdoor_temperature" THEN "get_outdoor_temperature_raw"
  ELSE IF method = "get_indoor_temperature" THEN "get_indoor_temperature_raw"
  ELSE "get_indoor_humidity_raw"

UnitAccessors ==
  {"get_current_temperature", "get_heat_setpoint", "get_cool_setpoint",
   "get_outdoor_temperature", "get_indoor_temperature", "get_indoor_humidity"}

RefreshingAccessors == RawAccessors \cup UnitAccessors

\* What a raw accessor makes of the refreshed record zone_info: int(),
\* bool() or the enum of the value looked up, or the value as it is
RawValue(method, zone_info) ==
  LET ui(field) == Lookup(zone_info, <<"latestData", "uiData", field>>)
      fan(field) == Lookup(zone_info, <<"latestData", "fanData", field>>)
      mode == ui("SystemSwitchPosition")
      output == ui("EquipmentOutputStatus")
      available == Lookup(zone_info, <<"DispTempAvailable">>)
      temp == Lookup(zone_info, <<"DispTemp">>)
      fanMode == fan("fanMode")
      running == fan("fanIsRunning")
      heat == ui("HeatSetpoint")
      cool == ui("CoolSetpoint")
  IN IF method = "get_system_mode"
     THEN IF mode.exc # "ok" THEN mode ELSE SystemModeOf(mode.value)
     ELSE IF method = "is_equipment_output_on"
     THEN IF output.exc # "ok" THEN output ELSE BoolOf(output.value)
     ELSE IF method = "get_current_temperature_raw"
     THEN IF available.exc # "ok" THEN available
          ELSE IF Falsy(available.value) THEN [exc |-> "KeyError", value |-> <<>>]
          ELSE IF temp.exc # "ok" THEN temp
          ELSE IntOf(temp.value)
     ELSE IF method = "get_fan_mode"
     THEN IF fanMode.exc # "ok" THEN fanMode ELSE FanModeOf(fanMode.value)
     ELSE IF method = "is_fan_running"
     THEN IF running.exc # "ok" THEN running ELSE BoolOf(running.value)
     ELSE IF method = "get_heat_setpoint_raw"
     THEN IF heat.exc # "ok" THEN heat ELSE IntOf(heat.value)
     ELSE IF method = "get_cool_setpoint_raw"
     THEN IF cool.exc # "ok" THEN cool ELSE IntOf(cool.value)
     ELSE IF method = "get_outdoor_temperature_raw"
     THEN Lookup(zone_info, <<"OutdoorTemperature">>)
     ELSE IF method = "get_indoor_temperature_raw" THEN ui("DispTemperature")
     ELSE ui("IndoorHumidity")

\* What an accessor that refreshes returns from the refreshed record: the
\* raw value, or the raw value as text followed by the degree sign and
\* DispUnits as text, or by % for the humidity.  The outdoor temperature
\* is the int or None the library itself put in the record.
AccessorValue(method, zone_info) ==
  LET raw == RawValue(RawOf(method), zone_info)
      units == Lookup(zone_info, <<"DispUnits">>)
      text == IF method = "get_outdoor_temperature" THEN StrOfOptional(raw.value)
              ELSE IF method \in {"get_indoor_temperature", "get_indoor_humidity"}
              THEN StrOf(raw.value)
              ELSE StrOfInt(raw.value)
  IN IF method \in RawAccessors THEN RawValue(method, zone_info)
     ELSE IF raw.exc # "ok" THEN raw
     ELSE IF method = "get_indoor_humidity"
     THEN [exc |-> "ok", value |-> text \o <<"%">>]
     ELSE IF units.exc # "ok" THEN units
     ELSE [exc |-> "ok", value |-> text \o <<"°">> \o StrOf(units.value)]

\* A variant of get_name that refreshes as the other accessors do.
NameAfterRefresh(zone, fetched) ==
  LET r == Refresh(zone, fetched)
      name == Lookup(r.zone.zone_info, <<"Name">>)
  IN IF r.exc # "ok" THEN [exc |-> r.exc, value |-> <<>>, zone |-> r.zone, log |-> fetched.log]
     ELSE [exc |-> name.exc, value |-> name.value, zone |-> r.zone, log |-> fetched.log]

\* get_name(): the Name of the record the Zone holds; fetched, the outcome
\* of a get_zones_info() made now, plays no part.
NameOfZone(zone, fetched) ==
  LET name == Lookup(zone.zone_info, <<"Name">>)
  IN [exc |-> name.exc, value |-> name.value, zone |-> zone, log |-> <<>>]

\* A variant of the modes without the emergency heat.
CallingModesWithoutEmergency(method) ==
  IF method = "is_calling_for_heat" THEN {"Heat", "AutoHeat"}
  ELSE {"Cool", "AutoCool"}

\* The modes for which is_calling_for_heat and is_calling_for_cool go on
\* to ask for the equipment output
CallingModes(method) ==
  IF method = "is_calling_for_heat" THEN {"Heat", "AutoHeat", "EMHeat"}
  ELSE {"Cool", "AutoCool"}

\* The session-check blob of a thermostat in a mode and with an equipment
\* output status that reports numbers
ThermostatBlob(mode, output) ==
  [success |-> TRUE,
   latestData |->
     JsonDict([uiData |-> JsonDict([SystemSwitchPosition |-> mode,
                                    EquipmentOutputStatus |-> output,
                                    HeatSetpoint |-> JsonNumber(68),
                                    CoolSetpoint |-> JsonNumber(75),
                                    DispTemperature |-> JsonNumber(71),
                                    IndoorHumidity |-> JsonNumber(40)]),
               fanData |-> JsonDict([fanMode |-> JsonNumber(3),
                                     fanIsRunning |-> JsonBool(FALSE)])]),
   DispUnits |-> JsonString(<<"F">>),
   DispTempAvailable |-> JsonBool(output # JsonNumber(1))]

\* The blobs of a thermostat in mode Heat with the output on that reports
\* otherwise: its values as texts, its values null, latestData null,
\* uiData a text with no fanData, and a dict and lists where texts are made
OtherBlobs ==
  { [success |-> TRUE,
     latestData |->
       JsonDict([uiData |-> JsonDict([SystemSwitchPosition |-> JsonNumber(1),
                                      EquipmentOutputStatus |-> JsonNumber(1),
                                      HeatSetpoint |-> JsonString(<<"6", "8">>),
                                      CoolSetpoint |-> JsonString(<<"w", "a", "r", "m">>),
                                      DispTemperature |-> JsonString(<<"7", "1">>),
                                      IndoorHumidity |-> JsonString(<<"4", "0">>)]),
                 fanData |-> JsonDict([fanMode |-> JsonString(<<"3">>),
                                       fanIsRunning |-> JsonNumber(1)])]),
     DispUnits |-> JsonString(<<"C">>),
     DispTempAvailable |-> JsonNumber(1),
     DispTemp |-> JsonString(<<" ", "7", "_", "2", "\n">>)],
    [success |-> TRUE,
     latestData |->
       JsonDict([uiData |-> JsonDict([SystemSwitchPosition |-> JsonNumber(1),
                                      EquipmentOutputStatus |-> JsonNumber(1),
                                      HeatSetpoint |-> JsonNull,
                                      CoolSetpoint |-> JsonBool(TRUE),
                                      DispTemperature |-> JsonNull,
                                      IndoorHumidity |-> JsonBool(FALSE)]),
                 fanData |-> JsonDict([fanMode |-> JsonBool(TRUE),
                                       fanIsRunning |-> JsonNull])]),
     DispUnits |-> JsonNull,
     DispTempAvailable |-> JsonString(<<"n", "o">>),
     DispTemp |-> JsonNull],
    [success |-> TRUE,
     latestData |-> JsonNull,
     DispUnits |-> JsonString(<<"F">>),
     DispTempAvailable |-> JsonNull],
    [success |-> TRUE,
     latestData |-> JsonDict([uiData |-> JsonString(<<"x">>)]),
     DispUnits |-> JsonString(<<"F">>),
     DispTempAvailable |-> JsonList(<<JsonNumber(0)>>),
     DispTemp |-> JsonList(<<JsonNumber(7)>>)],
    [success |-> TRUE,
     latestData |->
       JsonDict([uiData |->
                   JsonDict([SystemSwitchPosition |-> JsonNumber(1),
                             EquipmentOutputStatus |-> JsonNumber(1),
                             HeatSetpoint |-> JsonNumber(68),
                             CoolSetpoint |-> JsonNumber(75),
                             DispTemperature |->
                               JsonDictAs(<< <<"b">>, <<"a", "1">> >>,
                                          [b |-> JsonList(<<JsonNull, JsonBool(TRUE)>>),
                                           a1 |-> JsonString(<<"'", "\n">>)]),
                             IndoorHumidity |-> JsonList(<<>>)]),
                 fanData |-> JsonDict([fanMode |-> JsonNumber(3),
                                       fanIsRunning |-> JsonBool(FALSE)])]),
     DispUnits |-> JsonList(<<JsonNumber(1), JsonString(<<"F">>)>>),
     DispTempAvailable |-> JsonBool(TRUE),
     DispTemp |-> JsonNumber(71)] }

\* The thermostats that report numbers: every mode of the enum and one it
\* lacks with the equipment output 0, 1 or 2; a mode that is true (which
\* equals 1), null or a text; an equipment output that is null
NumberBlobs ==
  {ThermostatBlob(JsonNumber(mode), JsonNumber(output)) : mode \in 0..8, output \in 0..2}
  \cup {ThermostatBlob(mode, JsonNumber(1)) :
          mode \in {JsonBool(TRUE), JsonNull, JsonString(<<"1">>)}}
  \cup {ThermostatBlob(JsonNumber(mode), JsonNull) : mode \in {1, 5}}

\* The portals with one page of zones and one of these thermostats
ThermostatPortals ==
  {[pages |-> 1, blob |-> blob,
    weather |-> CHOOSE w \in WeatherScripts : Contains(w, OutdoorTempMark)] :
     blob \in NumberBlobs \cup OtherBlobs}

\* The answers of the portal during a refresh made by an accessor
AccessorAnswers(p) ==
  {HealthyAnswers(p), [HealthyAnswers(p) EXCEPT !.session = TroubleAnswer]}

\* The client's fields and the portal when a call starts
FieldsAndPortal ==
  [session |-> session, locationId |-> locationId, portal |-> portal]

\* A call of an accessor that refreshes and then reads the record
ReadAccessor(method) ==
  /\ pc = "idle"
  /\ \E answers \in AccessorAnswers(portal) :
     \E fetched \in {FetchZonesInfo(nameCache, answers)} :
     \E r \in {Refresh(view, fetched)} :
     \E v \in {AccessorValue(method, r.zone.zone_info)} :
       /\ view' = r.zone
       /\ exc' = IF r.exc # "ok" THEN r.exc ELSE v.exc
       /\ ret' = IF r.exc # "ok" THEN <<>> ELSE v.value
       /\ nameCache' = fetched.cache
       /\ zones' = fetched.zones
       /\ log' = fetched.log
  /\ op' = method
  /\ before' = FieldsAndPortal
  /\ pc' = "done"
  /\ NoRetryLoop
  /\ UNCHANGED <<session, locationId, arg, page_num, idx, portal>>

\* A call of get_name()
GetName ==
  /\ pc = "idle"
  /\ \E answers \in AccessorAnswers(portal) :
     \E fetched \in {FetchZonesInfo(nameCache, answers)} :
     \E r \in {NameOfZone(view, fetched)} :
       /\ view' = r.zone
       /\ exc' = r.exc
       /\ ret' = r.value
       /\ log' = r.log
       /\ nameCache' = IF r.log = <<>> THEN nameCache ELSE fetched.cache
       /\ zones' = IF r.log = <<>> THEN <<>> ELSE fetched.zones
  /\ op' = "get_name"
  /\ before' = FieldsAndPortal
  /\ pc' = "done"
  /\ NoRetryLoop
  /\ UNCHANGED <<session, locationId, arg, page_num, idx, portal>>

\* is_calling_for_heat() or is_calling_for_cool() up to the value of
\* get_system_mode(): an exception or a mode outside the method's modes
\* ends the call, else is_equipment_output_on() follows.
IsCallingFor(method) ==
  /\ pc = "idle"
  /\ \E answers \in AccessorAnswers(portal) :
     \E fetched \in {FetchZonesInfo(nameCache, answers)} :
     \E r \in {Refresh(view, fetched)} :
     \E v \in {AccessorValue("get_system_mode", r.zone.zone_info)} :
       /\ view' = r.zone
       /\ nameCache' = fetched.cache
       /\ zones' = fetched.zones
       /\ log' = fetched.log
       /\ IF r.exc # "ok"
          THEN exc' = r.exc /\ ret' = <<>> /\ pc' = "done"
          ELSE IF v.exc # "ok"
          THEN exc' = v.exc /\ ret' = <<>> /\ pc' = "done"
          ELSE IF v.value \notin CallingModes(method)
          THEN exc' = "ok" /\ ret' = FALSE /\ pc' = "done"
          ELSE exc' = "ok" /\ ret' = v.value /\ pc' = "output"
  /\ op' = method
  /\ before' = FieldsAndPortal
  /\ NoRetryLoop
  /\ UNCHANGED <<session, locationId, arg, page_num, idx, portal>>

\* The rest of is_calling_for_heat() or is_calling_for_cool(): the value
\* of is_equipment_output_on(), which refreshes again, is the result.
IsEquipmentOutputOn ==
  /\ pc = "output"
  /\ \E answers \in AccessorAnswers(portal) :
     \E fetched \in {FetchZonesInfo(nameCache, answers)} :
     \E r \in {Refresh(view, fetched)} :
     \E v \in {AccessorValue("is_equipment_output_on", r.zone.zone_info)} :
       /\ view' = r.zone
       /\ nameCache' = fetched.cache
       /\ zones' = fetched.zones
       /\ log' = log \o fetched.log
       /\ exc' = IF r.exc # "ok" THEN r.exc ELSE v.exc
       /\ ret' = IF r.exc # "ok" \/ v.exc # "ok" THEN <<>> ELSE v.value
  /\ pc' = "done"
  /\ UNCHANGED <<session, locationId, op, authVars, arg, before, page_num, idx, portal>>

\* The thermostat changes at the portal: between two calls or, once,
\* between the two refreshes of one call
ThermostatChanges ==
  /\ \/ pc = "idle"
     \/ pc = "output" /\ before.portal = portal
  /\ portal' \in ThermostatPortals \ {portal}
  /\ UNCHANGED <<clientVars, pc, op, exc, ret, authVars, arg, before, zonesVars, log, view>>

\* A client that has fetched its zones before, so that their names are
\* cached, and a Zone made from a dict that has the DeviceID only, which
\* Zone.__init__ keeps as the record
InitThermostat ==
  /\ session = 1
  /\ locationId = Some(12345)
  /\ nameCache = [d \in DeviceIds |-> NameOfDevice(d)]
  /\ pc = "idle"
  /\ op = "none"
  /\ exc = "ok"
  /\ ret = <<>>
  /\ i = 0
  /\ attempts = 0
  /\ sleepCount = 0
  /\ slept = <<>>
  /\ lastLogin = "none"
  /\ arg = <<>>
  /\ before = NoCall
  /\ zones = <<>>
  /\ page_num = 0
  /\ idx = 0
  /\ log = <<>>
  /\ portal \in ThermostatPortals
  /\ \E d \in {1, 777999} : view = [device_id |-> d, zone_info |-> [DeviceID |-> d]]

NextThermostat ==
  \/ \E method \in RefreshingAccessors : ReadAccessor(method)
  \/ GetName
  \/ \E method \in {"is_calling_for_heat", "is_calling_for_cool"} : IsCallingFor(method)
  \/ IsEquipmentOutputOn
  \/ ThermostatChanges
  \/ Return

SpecThermostat == InitThermostat /\ [][NextThermostat]_vars

(***************************************************************************)
(* Properties of the reading calls of a Zone                               *)
(***************************************************************************)

\* The values of SystemMode: EMHeat 0, Heat 1, Off 2, Cool 3, AutoHeat 4,
\* AutoCool 5, SouthernAway 6, Unknown 7
HeatModeValues == {1, 4, 0}
CoolModeValues == {3, 5}

\* What the thermostat p reports at the portal: the number its mode
\* equals (True equals 1; -1 for a mode that equals none), and whether its
\* EquipmentOutputStatus is a number other than 0
ModeReported(p) ==
  LET mode == p.blob.latestData.fields.uiData.fields.SystemSwitchPosition
  IN IF mode.kind = "number" THEN mode.value
     ELSE IF mode = JsonBool(TRUE) THEN 1
     ELSE -1
OutputReported(p) ==
  LET output == p.blob.latestData.fields.uiData.fields.EquipmentOutputStatus
  IN IF output.kind = "number" THEN output.value ELSE 0
ThermostatMode == ModeReported(portal)
ThermostatOutput == OutputReported(portal)

\* A call that returned a value while the thermostat did not change
ReturnedFromSteady(method) ==
  /\ pc = "done"
  /\ op = method
  /\ exc = "ok"
  /\ before.portal = portal

\* C17: is_calling_for_heat() is true exactly when the mode is Heat,
\* AutoHeat or EMHeat and EquipmentOutputStatus is not 0;
\* is_calling_for_cool() exactly when the mode is Cool or AutoCool and
\* EquipmentOutputStatus is not 0; for Off, SouthernAway and Unknown both
\* are false.  (For a thermostat that does not change during the call.)
C17_CallingForHeatOrCool ==
  /\ ReturnedFromSteady("is_calling_for_heat") =>
       ret = (ThermostatMode \in HeatModeValues /\ ThermostatOutput # 0)
  /\ ReturnedFromSteady("is_calling_for_cool") =>
       ret = (ThermostatMode \in CoolModeValues /\ ThermostatOutput # 0)

\* C17 witness: in mode EMHeat with output status 2 is_calling_for_heat()
\* returned true.
C17_Witness ==
  /\ ReturnedFromSteady("is_calling_for_heat")
  /\ ThermostatMode = 0
  /\ ThermostatOutput = 2
  /\ ret = TRUE

\* In mode AutoCool with output status 1 is_calling_for_cool() returned
\* true, and in mode Off false.
C17_CoolReached ==
  /\ ReturnedFromSteady("is_calling_for_cool")
  /\ \/ ThermostatMode = 5 /\ ThermostatOutput = 1 /\ ret = TRUE
     \/ ThermostatMode = 2 /\ ThermostatOutput = 1 /\ ret = FALSE

\* The public read accessors other than get_name
ReadMethods ==
  {"get_system_mode", "is_equipment_output_on", "is_calling_for_heat",
   "is_calling_for_cool", "get_current_temperature_raw", "get_current_temperature",
   "get_fan_mode", "is_fan_running", "get_heat_setpoint_raw",
   "get_cool_setpoint_raw", "get_heat_setpoint", "get_cool_setpoint",
   "get_outdoor_temperature_raw", "get_outdoor_temperature",
   "get_indoor_temperature_raw", "get_indoor_temperature",
   "get_indoor_humidity_raw", "get_indoor_humidity"}

\* The call started with the request for the first page of zones, and the
\* record it read, if it got that far, is one of the zones fetched; the
\* value of an accessor of one fetch is the one that record gives.
ReadFreshRecord ==
  /\ log # <<>>
  /\ log[1].kind = "zonelist" /\ log[1].page = 1
  /\ exc = "ok" => \E n \in 1..Len(zones) : zones[n] = view.zone_info
  /\ (exc = "ok" /\ op \in RefreshingAccessors) =>
       \E n \in 1..Len(zones) :
         /\ zones[n].DeviceID = view.device_id
         /\ AccessorValue(op, zones[n]) = [exc |-> "ok", value |-> ret]

\* C19 as stated: every read accessor, get_name among them, refreshes the
\* record before it produces its value.
C19_EveryReadRefreshes ==
  (pc = "done" /\ op \in ReadMethods \cup {"get_name"}) => ReadFreshRecord

\* C19, amended: every read accessor other than get_name refreshes the
\* record before it produces its value; get_name sends no request and
\* returns the Name of the record the Zone already holds.
C19_EveryReadButGetNameRefreshes ==
  /\ (pc = "done" /\ op \in ReadMethods) => ReadFreshRecord
  /\ (pc = "done" /\ op = "get_name") =>
       /\ log = <<>>
       /\ IF "Name" \in DOMAIN view.zone_info
          THEN exc = "ok" /\ ret = view.zone_info.Name
          ELSE exc = "KeyError"

\* C19 witness: get_indoor_temperature() fetched the zones and returned
\* the text of the fetched value with the unit.
C19_Witness ==
  /\ pc = "done"
  /\ op = "get_indoor_temperature"
  /\ exc = "ok"
  /\ ReadFreshRecord
  /\ ret = <<"7", "1", "°", "F">>

\* get_name() returned the name of the record held without any request.
C19_GetNameReached ==
  /\ pc = "done"
  /\ op = "get_name"
  /\ exc = "ok"
  /\ ret = <<"U", "P">>
  /\ log = <<>>

\* The conversions of the accessors are reached: int() of the text "68" is
\* 68 and of null TypeError, bool() of null is false, the subscript of a
\* latestData that is null raises TypeError, and the text of a dict and of
\* a list is the one repr() writes.
ConversionsReached ==
  LET reports(path, v) ==
        LET found == Lookup(portal.blob, path)
        IN found.exc = "ok" /\ found.value = v
  IN
  /\ pc = "done"
  /\ before.portal = portal
  /\ view.device_id = 1
  /\ \/ /\ op = "get_heat_setpoint_raw"
        /\ reports(<<"latestData", "uiData", "HeatSetpoint">>, JsonString(<<"6", "8">>))
        /\ exc = "ok"
        /\ ret = 68
     \/ /\ op = "get_heat_setpoint_raw"
        /\ reports(<<"latestData", "uiData", "HeatSetpoint">>, JsonNull)
        /\ exc = "TypeError"
     \/ /\ op = "is_fan_running"
        /\ reports(<<"latestData", "fanData", "fanIsRunning">>, JsonNull)
        /\ exc = "ok"
        /\ ret = FALSE
     \/ /\ op = "get_system_mode"
        /\ portal.blob.latestData = JsonNull
        /\ exc = "TypeError"
     \/ /\ op = "get_indoor_temperature"
        /\ portal.blob.DispUnits.kind = "list"
        /\ exc = "ok"
        /\ ret = <<"{", "'", "b", "'", ":", " ", "[", "N", "o", "n", "e", ",", " ",
                   "T", "r", "u", "e", "]", ",", " ", "'", "a", "1", "'", ":", " ",
                   "\"", "'", "\\", "n", "\"", "}", "°",
                   "[", "1", ",", " ", "'", "F", "'", "]">>
     \/ /\ op = "get_indoor_humidity"
        /\ portal.blob.DispUnits.kind = "list"
        /\ exc = "ok"
        /\ ret = <<"[", "]", "%">>

(***************************************************************************)
(* Properties of deAuthenticate                                            *)
(***************************************************************************)

\* The client holds a session object: self.session is set and not None
HoldsSession == session # 0

\* deAuthenticate() returned normally: the log-off GET was answered 200
LoggedOff ==
  /\ pc = "done"
  /\ op = "deAuthenticate"
  /\ exc = "ok"

\* C20: after deAuthenticate() returns normally on a client that held a
\* session, the stored session is discarded: the client no longer holds a
\* session, so that a further deAuthenticate() sends no log-off request.
C20_SessionDiscardedAfterLogOff ==
  (LoggedOff /\ before.session # 0) => ~HoldsSession

\* C20 witness: deAuthenticate() sent the log-off GET, returned normally,
\* and the client holds the very session it held before the call.
C20_Witness ==
  /\ LoggedOff
  /\ before.session # 0
  /\ log = <<[kind |-> "logoff", http |-> 1]>>
  /\ session = before.session
(***************************************************************************)
(* Properties of the errors of the zone-list requests                      *)
(***************************************************************************)

\* The zone-list requests of the get_zones_info() under way whose
\* _request_json raised the error
FailedPages(error) ==
  {k \in 1..Len(log) : log[k].kind = "zonelist" /\ log[k].error = error}

\* The entries of the portal's pages 1..n, in page order
RECURSIVE EntriesUpTo(_)
EntriesUpTo(n) == IF n = 0 THEN <<>> ELSE EntriesUpTo(n - 1) \o PageEntries(n)

\* The request at k was the last request of the call, which ended with the
\* exception raised
EndedWith(k, raised) == k = Len(log) /\ pc = "done" /\ exc = raised

\* C21 as stated: a zone-list request that fails with UnexpectedError or
\* UnauthorizedError makes get_zones_info() fail with that same error, for
\* every page; the failure is never taken for an empty page or for the end
\* of the pages.
C21_PageErrorsPropagate ==
  op = "get_zones_info" =>
    \A error \in {"UnexpectedError", "UnauthorizedError"} :
      \A k \in FailedPages(error) : EndedWith(k, error)

\* C21, amended: UnauthorizedError of a zone-list request makes
\* get_zones_info() fail with UnauthorizedError, for every page;
\* UnexpectedError is caught by _post_zone_list_data and the page counts as
\* empty: on page 1 the call fails with NoZonesFoundError, on a later page
\* the page loop ends there and the call goes on with the zones of the
\* pages before.
C21_UnauthorizedPropagatesUnexpectedIsEmptyPage ==
  op = "get_zones_info" =>
    /\ \A k \in FailedPages("UnauthorizedError") : EndedWith(k, "UnauthorizedError")
    /\ \A k \in FailedPages("UnexpectedError") :
         /\ log[k].exc = "ok" /\ log[k].value = JsonNull
         /\ \A m \in (k + 1)..Len(log) : log[m].kind # "zonelist"
         /\ IF log[k].page = FirstPage
            THEN EndedWith(k, "NoZonesFoundError")
            ELSE /\ pc \in {"zone", "done"}
                 /\ exc # "NoZonesFoundError"
                 /\ k = log[k].page
                 /\ pc = "zone" /\ idx = 1 =>
                      zones = EntriesUpTo(log[k].page - 1)

\* C21 witness: the request for page 3 failed with UnexpectedError and the
\* call goes on to the details of the zones of pages 1 and 2.
C21_Witness ==
  /\ op = "get_zones_info"
  /\ pc = "zone"
  /\ Len(log) = 3
  /\ log[3].kind = "zonelist" /\ log[3].page = 3
  /\ log[3].error = "UnexpectedError"
  /\ Len(zones) = 3

\* The request for page 5 failed with UnauthorizedError and so did the call.
C21_UnauthorizedOnLastPageReached ==
  /\ op = "get_zones_info"
  /\ Len(log) = 5
  /\ log[5].kind = "zonelist" /\ log[5].page = 5
  /\ log[5].error = "UnauthorizedError"
  /\ EndedWith(5, "UnauthorizedError")
(***************************************************************************)
(* Properties of the per-device fetches of get_zones_info                  *)
(***************************************************************************)

\* The per-device fetches of the get_zones_info() under way, in the order
\* they were made
DeviceFetches == SelectSeq(log, LAMBDA e : e.kind # "zonelist")

\* The steps of one entry, in the order of the code
FetchOrder == <<"name", "session", "weather">>

\* C22: during get_zones_info() the per-device fetches run for the
\* accumulated entries in list order and, for each entry, in the order name
\* lookup, session check, weather page; when a fetch fails, the call fails
\* with that fetch's own error, returns no list, and makes no further fetch.
C22_FetchOrderAndFirstFailureEnds ==
  op = "get_zones_info" =>
    /\ \A j \in 1..Len(DeviceFetches) :
         /\ DeviceFetches[j].kind = FetchOrder[((j - 1) % 3) + 1]
         /\ ((j - 1) \div 3) + 1 <= Len(zones)
         /\ DeviceFetches[j].device = zones[((j - 1) \div 3) + 1].DeviceID
         /\ DeviceFetches[j].exc # "ok" => j = Len(DeviceFetches)
    /\ \A k \in 1..Len(log) :
         (log[k].kind # "zonelist" /\ log[k].exc # "ok") =>
           /\ EndedWith(k, log[k].exc)
           /\ ret = <<>>
    /\ \A k \in 1..Len(log) :
         log[k].kind # "zonelist" => \A m \in (k + 1)..Len(log) : log[m].kind # "zonelist"

\* C22 witness: the session check of the second entry failed with
\* UnauthorizedError after the three fetches of the first entry and the name
\* lookup of the second; the call failed with it and returned nothing.
C22_Witness ==
  /\ op = "get_zones_info"
  /\ pc = "done"
  /\ exc = "UnauthorizedError"
  /\ ret = <<>>
  /\ Len(DeviceFetches) = 5
  /\ DeviceFetches[5].kind = "session"
  /\ DeviceFetches[5].exc = "UnauthorizedError"
  /\ DeviceFetches[5].device = 1
  /\ DeviceFetches[3].kind = "weather" /\ DeviceFetches[3].device = 2

\* The weather page of an entry failed with HTTPError and so did the call.
C22_WeatherFailureReached ==
  /\ op = "get_zones_info"
  /\ pc = "done"
  /\ exc = "HTTPError"
  /\ DeviceFetches # <<>>
  /\ DeviceFetches[Len(DeviceFetches)].kind = "weather"
  /\ DeviceFetches[Len(DeviceFetches)].exc = "HTTPError"

\* The name lookup of an entry failed with IndexError and so did the call.
C22_NameFailureReached ==
  /\ op = "get_zones_info"
  /\ pc = "done"
  /\ exc = "IndexError"
  /\ DeviceFetches # <<>>
  /\ DeviceFetches[Len(DeviceFetches)].kind = "name"
(***************************************************************************)
(* Properties of the fields after one login attempt                        *)
(***************************************************************************)

\* The five failures by which _do_authenticate classifies a login response
FiveFailures ==
  {"AuthenticationError", "LoginCredentialsInvalidError", "TooManyAttemptsError",
   "RedirectDidNotHappenError", "LoginUnexpectedError"}

\* _do_authenticate() has ended with one of the five failures
AttemptFailed == AttemptReturned /\ exc \in FiveFailures

\* C23 as stated: a login attempt that ends in one of the five failures
\* leaves the stored session and the stored LocationID as they were before
\* the attempt.
C23_FailedAttemptKeepsSessionAndLocationId ==
  AttemptFailed => session = before.session /\ locationId = before.locationId

\* C23, amended: a login attempt that ends in one of the five failures
\* leaves the stored LocationID as it was before the attempt, but the stored
\* session is a new session object, as after every attempt; the LocationID
\* is replaced only by an attempt that succeeds.
C23_FailedAttemptKeepsLocationIdOnly ==
  /\ AttemptFailed =>
       /\ locationId = before.locationId
       /\ session # before.session
       /\ session # 0
  /\ AttemptReturned =>
       /\ session # before.session
       /\ locationId # before.locationId => exc = "ok"

\* C23 witness: on a constructed client a login attempt was answered with
\* too many attempts: the LocationID is the old one, the session is new.
C23_Witness ==
  /\ AttemptFailed
  /\ exc = "TooManyAttemptsError"
  /\ before.session = 1
  /\ before.locationId = Some(90210)
  /\ locationId = Some(90210)
  /\ session = 2

\* An attempt that succeeded replaced the LocationID and the session.
C23_SuccessReached ==
  /\ AttemptReturned
  /\ exc = "ok"
  /\ before.locationId = Some(90210)
  /\ locationId # before.locationId
  /\ session # before.session
(***************************************************************************)
(* is_calling_for_heat() and is_calling_for_cool() on a thermostat that    *)
(* changes during the call                                                 *)
(***************************************************************************)

\* What the method's condition gives on the record of thermostat p alone
CallingOn(method, p) ==
  /\ ModeReported(p) \in
       (IF method = "is_calling_for_heat" THEN HeatModeValues ELSE CoolModeValues)
  /\ OutputReported(p) # 0

\* The number of zone fetches of the call: each starts with a request for
\* page 1 of the zone list
ZoneFetches ==
  Len(SelectSeq(log, LAMBDA e : e.kind = "zonelist" /\ e.page = 1))

\* is_calling_for_heat() or is_calling_for_cool() has returned a value
CallingReturned ==
  /\ pc = "done"
  /\ op \in {"is_calling_for_heat", "is_calling_for_cool"}
  /\ exc = "ok"

\* C24: is_calling_for_heat() and is_calling_for_cool() evaluate the mode
\* and the output status on one refreshed record: even when the thermostat
\* changes during the call, the result is what the condition gives on the
\* record of one zone fetch, that of the thermostat as it was when the call
\* began or as it is when the call ends.
C24_ModeAndOutputFromOneRecord ==
  CallingReturned =>
    \/ ret = CallingOn(op, before.portal)
    \/ ret = CallingOn(op, portal)

\* C24 witness: the thermostat was in mode Heat with the output off, and is
\* in mode Off with the output on; is_calling_for_heat() made two zone
\* fetches and returned true, which neither record gives.
C24_Witness ==
  /\ CallingReturned
  /\ op = "is_calling_for_heat"
  /\ ModeReported(before.portal) = 1
  /\ OutputReported(before.portal) = 0
  /\ ThermostatMode = 2
  /\ ThermostatOutput = 1
  /\ ZoneFetches = 2
  /\ ret = TRUE

\* Two zone fetches are made whenever the mode is one of the method's
\* modes, also for a thermostat that does not change.
C24_TwoFetchesOnSteadyReached ==
  /\ CallingReturned
  /\ before.portal = portal
  /\ ZoneFetches = 2
(***************************************************************************)
(* The device a submission is addressed to                                 *)
(***************************************************************************)

\* A submission was posted by submit_raw_control_changes called directly,
\* by submit_control_changes of a Zone or by a mutating method of a Zone
PostedDirectly == SubmitReturned /\ log # <<>>
PostedThroughZone ==
  /\ pc = "done"
  /\ op \in MutatingMethods \cup {"submit_control_changes"}
  /\ log # <<>>

\* The device_id argument of the raw submission
DeviceIdArgument ==
  IF op = "submit_raw_control_changes" THEN arg.device_id ELSE view.device_id

\* The updates mapping the raw submission was given
UpdatesPassed ==
  IF op = "submit_raw_control_changes" THEN arg.other_data
  ELSE IF op = "submit_control_changes" THEN arg.data
  ELSE ControlChangesOf(arg.method, arg.temp, arg.end, arg.now).data

\* The value the updates give for DeviceID, if any
DeviceIdPassed ==
  {UpdatesPassed[n][2] : n \in {m \in 1..Len(UpdatesPassed) : UpdatesPassed[m][1] = "DeviceID"}}

\* C25 as stated: for every updates mapping that is accepted, the DeviceID
\* of the posted body is the device_id argument, so that every submission
\* through a Zone is addressed to the view's device_id.
C25_DeviceIdIsTheArgument ==
  (PostedDirectly \/ PostedThroughZone) =>
    log[1].body.DeviceID = Some(DeviceIdArgument)

\* C25, amended: the DeviceID of the posted body is the device_id argument
\* for every accepted updates mapping without the key DeviceID, and the
\* value the mapping gives for DeviceID otherwise; the mutating methods of
\* a Zone never pass DeviceID, so their submissions are addressed to the
\* view's device_id.
C25_DeviceIdIsTheArgumentUnlessPassed ==
  /\ (PostedDirectly \/ PostedThroughZone) =>
       /\ Len(log) = 1
       /\ log[1].kind = "submit"
       /\ IF DeviceIdPassed = {}
          THEN log[1].body.DeviceID = Some(DeviceIdArgument)
          ELSE DeviceIdPassed = {log[1].body.DeviceID}
  /\ (PostedThroughZone /\ op \in MutatingMethods) =>
       /\ DeviceIdPassed = {}
       /\ log[1].body.DeviceID = Some(view.device_id)

\* C25 witness: submit_control_changes of the Zone of device 777999 was
\* given DeviceID 7 and a fan mode; the body posted names device 7.
C25_Witness ==
  /\ PostedThroughZone
  /\ op = "submit_control_changes"
  /\ view.device_id = 777999
  /\ arg.data = << <<"DeviceID", Some(7)>>, <<"FanMode", Some(1)>> >>
  /\ log[1].body.DeviceID = Some(7)
  /\ log[1].body.FanMode = Some(1)
  /\ exc = "ok"

\* turn_fan_on() of the Zone of device 777999 posted a body for 777999.
C25_MutatorReached ==
  /\ PostedThroughZone
  /\ op = "turn_fan_on"
  /\ view.device_id = 777999
  /\ log[1].body.DeviceID = Some(777999)

\* submit_raw_control_changes(1999, updates) with DeviceID 7 in the updates
\* posted a body for device 7.
C25_DirectReached ==
  /\ PostedDirectly
  /\ arg.device_id = 1999
  /\ DeviceIdPassed = {Some(7)}
  /\ log[1].body.DeviceID = Some(7)

====
